---- MODULE Spec2Model ----
(***************************************************************************)
(* A model of the WebP converter: the frame-name parser and the sequence   *)
(* detector of lib/sequence-detector (src/unnamed/part_000), the           *)
(* conversion call of lib/converter.ts and the batch orchestration of      *)
(* hooks/useImageConverter.ts.                                             *)
(*                                                                         *)
(* Strings are sequences of one-character strings, so that the regular     *)
(* expressions, toLowerCase, template strings and localeCompare act on     *)
(* characters.  A nullable field (number | null, Blob | null, an optional  *)
(* string) is a sequence of length at most one: Null is <<>>, a present    *)
(* value v is <<v>>.                                                       *)
(***************************************************************************)
EXTENDS Integers, Sequences, FiniteSets, TLC

VARIABLES
    filename,      \* SpecParse: the argument of extractFrameInfo
    parsed,        \* SpecParse: its result, Null before the call
    files,         \* SpecDetect: the argument of detectSequences
    detected,      \* SpecDetect: its result, Null before the call
    sequences,     \* useImageConverter: the sequences state
    settings,      \* useImageConverter: the settings state
    isConverting,  \* useImageConverter: the isConverting state
    batches,       \* the addFiles calls made so far, each with its loop position
    clock,         \* the value Date.now() returns
    conversion,    \* SpecConvert: one convertToWebP call, Null where none is followed
    naming,        \* SpecFileName: a file offered and its download name, Null elsewhere
    pixel,         \* SpecLuminance: one pixel and its luminance maps, Null elsewhere
    isProcessing,  \* DropZone: the isProcessing state
    reading,       \* DropZone: the handleDrop call that awaits its files, Null when none does
    player,        \* SequencePlayer: its state, Null where no player is followed
    compare,       \* ImageCompare: its state, Null while it is not mounted
    preview,       \* PreviewPanel: its state, Null where no panel is followed
    archive        \* the last download handed to saveAs, Null before the first

vars == <<filename, parsed, files, detected, sequences, settings, isConverting, batches, clock,
          conversion, naming, pixel, isProcessing, reading, player, compare, preview, archive>>

parseVars == <<filename, parsed>>
detectVars == <<files, detected>>
hookVars == <<sequences, settings, isConverting, batches, clock>>
convertVars == <<conversion>>
nameVars == <<naming>>
pixelVars == <<pixel>>
dropVars == <<isProcessing, reading>>
playerVars == <<player, compare, preview>>
archiveVars == <<archive>>

Null == <<>>
Some(v) == <<v>>

-----------------------------------------------------------------------------
(* Characters *)

DigitChars == <<"0", "1", "2", "3", "4", "5", "6", "7", "8", "9">>
LowerChars == <<"a", "b", "c", "d", "e", "f", "g", "h", "i", "j", "k", "l", "m",
                "n", "o", "p", "q", "r", "s", "t", "u", "v", "w", "x", "y", "z">>
UpperChars == <<"A", "B", "C", "D", "E", "F", "G", "H", "I", "J", "K", "L", "M",
                "N", "O", "P", "Q", "R", "S", "T", "U", "V", "W", "X", "Y", "Z">>

IndexIn(c, table) == CHOOSE i \in 1..Len(table) : table[i] = c
IsIn(c, table) == \E i \in 1..Len(table) : table[i] = c

\* \d
IsDigit(c) == IsIn(c, DigitChars)
\* [-_]
IsSeparator(c) == c \in {"-", "_"}
\* [^/.]
IsExtensionChar(c) == c \notin {"/", "."}

\* String.prototype.toLowerCase, one character
LowerChar(c) == IF IsIn(c, UpperChars) THEN LowerChars[IndexIn(c, UpperChars)] ELSE c
\* String.prototype.toLowerCase
ToLowerCase(s) == [i \in 1..Len(s) |-> LowerChar(s[i])]

\* the run of digits allowed to be empty: \d*$
DigitsToEnd_OrNone(s, from) ==
    /\ from >= 1
    /\ from <= Len(s) + 1
    /\ \A j \in from..Len(s) : IsDigit(s[j])

\* s[from..Len(s)] is a non-empty run of decimal digits: \d+$
DigitsToEnd(s, from) ==
    /\ from >= 1
    /\ from <= Len(s)
    /\ \A j \in from..Len(s) : IsDigit(s[j])

\* parseInt(digits, 10) on a non-empty run of decimal digits
RECURSIVE ParseInt(_)
ParseInt(digits) ==
    IF Len(digits) = 0 THEN 0
    ELSE 10 * ParseInt(SubSeq(digits, 1, Len(digits) - 1))
         + (IndexIn(digits[Len(digits)], DigitChars) - 1)

\* the decimal digits of a number, as a template string prints it
RECURSIVE NumberToString(_)
NumberToString(n) ==
    IF n < 10 THEN <<DigitChars[n + 1]>>
    ELSE NumberToString(n \div 10) \o <<DigitChars[(n % 10) + 1]>>

-----------------------------------------------------------------------------
(* extractFrameInfo *)

\* filename.replace(/\.[^/.]+$/, ''): the match starts at a '.' that is followed,
\* up to the end, by one or more characters other than '/' and '.'
ExtensionStarts(s) ==
    {i \in 1..Len(s) : /\ s[i] = "."
                       /\ i < Len(s)
                       /\ \A j \in (i + 1)..Len(s) : IsExtensionChar(s[j])}

Min(S) == CHOOSE x \in S : \A y \in S : x <= y
Max(S) == CHOOSE x \in S : \A y \in S : x >= y

RemoveExtension(s) ==
    IF ExtensionStarts(s) = {} THEN s
    ELSE SubSeq(s, 1, Min(ExtensionStarts(s)) - 1)

\* /^(.+?)[-_]?(\d{2,})$/ with the lazy group (.+?) holding p characters: the
\* optional separator is taken when present (greedy ?), and the digits run to the end
MinFrameDigits == 2

\* the first pattern without its optional separator: /^(.+?)(\d{2,})$/
FirstPatternDigitsFrom_NoSeparator(s, p) == p + 1

FirstPatternDigitsFrom(s, p) ==
    IF p + 1 <= Len(s) /\ IsSeparator(s[p + 1]) THEN p + 2 ELSE p + 1

FirstPatternMatches(s, p) ==
    LET from == FirstPatternDigitsFrom(s, p)
    IN  /\ DigitsToEnd(s, from)
        /\ Len(s) - from + 1 >= MinFrameDigits

\* the fallback pattern asking for two digits or more, as the first one does
SecondPatternMatches_TwoDigits(s, p) ==
    /\ p + 1 <= Len(s)
    /\ IsSeparator(s[p + 1])
    /\ DigitsToEnd(s, p + 2)
    /\ Len(s) - (p + 2) + 1 >= MinFrameDigits

\* /^(.+?)[-_](\d+)$/ with the lazy group holding p characters
SecondPatternMatches(s, p) ==
    /\ p + 1 <= Len(s)
    /\ IsSeparator(s[p + 1])
    /\ DigitsToEnd(s, p + 2)

\* the lengths the lazy group (.+?) can take, tried shortest first
FirstPatternPrefixes(s) == {p \in 1..Len(s) : FirstPatternMatches(s, p)}
SecondPatternPrefixes(s) == {p \in 1..Len(s) : SecondPatternMatches(s, p)}

extractFrameInfo(name) ==
    LET nameWithoutExt == RemoveExtension(name)
        n == Len(nameWithoutExt)
    IN  IF FirstPatternPrefixes(nameWithoutExt) # {}
        THEN LET p == Min(FirstPatternPrefixes(nameWithoutExt))
             IN  [baseName |-> SubSeq(nameWithoutExt, 1, p),
                  frameNumber |-> Some(ParseInt(SubSeq(nameWithoutExt,
                                    FirstPatternDigitsFrom(nameWithoutExt, p), n)))]
        ELSE IF SecondPatternPrefixes(nameWithoutExt) # {}
        THEN LET p == Min(SecondPatternPrefixes(nameWithoutExt))
             IN  [baseName |-> SubSeq(nameWithoutExt, 1, p),
                  frameNumber |-> Some(ParseInt(SubSeq(nameWithoutExt, p + 2, n)))]
        ELSE [baseName |-> nameWithoutExt, frameNumber |-> Null]

-----------------------------------------------------------------------------
(* Array.prototype.sort: a stable sort under a consistent comparator.  The   *)
(* element at position i goes behind every element that compares lower and  *)
(* behind every equal element that stood before it.                          *)

SortBy(seq, Compare(_, _)) ==
    LET n == Len(seq)
        Before(j, i) == \/ Compare(seq[j], seq[i]) < 0
                        \/ (Compare(seq[j], seq[i]) = 0 /\ j < i)
        rank(i) == Cardinality({j \in 1..n : Before(j, i)}) + 1
    IN  [k \in 1..n |-> seq[CHOOSE i \in 1..n : rank(i) = k]]

\* a - b
CompareNumbers(a, b) == a - b

\* frameNumber || 0
FrameOrZero(img) == IF img.frameNumber = Null THEN 0 ELSE img.frameNumber[1]

\* the comparator with its operands swapped
CompareFrames_Descending(a, b) == FrameOrZero(b) - FrameOrZero(a)

\* (a.frameNumber || 0) - (b.frameNumber || 0)
CompareFrames(a, b) == FrameOrZero(a) - FrameOrZero(b)

\* String.prototype.localeCompare under the root collation: punctuation before
\* digits before letters; the letters' case counts only between strings that are
\* equal otherwise, lower case first
CollationOrder == <<" ", "_", "-", ".", "(", ")", "/">> \o DigitChars \o LowerChars

PrimaryWeight(c) == IndexIn(LowerChar(c), CollationOrder)
CaseWeight(c) == IF IsIn(c, UpperChars) THEN 1 ELSE 0

\* lexicographic comparison of two strings under a weight of the characters
CompareUnder(a, b, Weight(_)) ==
    LET m == IF Len(a) < Len(b) THEN Len(a) ELSE Len(b)
        diff == {i \in 1..m : Weight(a[i]) # Weight(b[i])}
    IN  IF diff # {}
        THEN (IF Weight(a[Min(diff)]) < Weight(b[Min(diff)]) THEN -1 ELSE 1)
        ELSE IF Len(a) < Len(b) THEN -1
        ELSE IF Len(a) > Len(b) THEN 1
        ELSE 0

localeCompare(a, b) ==
    IF CompareUnder(a, b, PrimaryWeight) # 0
    THEN CompareUnder(a, b, PrimaryWeight)
    ELSE CompareUnder(a, b, CaseWeight)

-----------------------------------------------------------------------------
(* findMissingFrames, splitByGaps *)

\* the inner loop running to j <= actual
FramesBetween_Inclusive(expected, actual) ==
    IF expected <= actual THEN [k \in 1..(actual - expected + 1) |-> expected + k - 1]
    ELSE <<>>

\* for (let j = expected; j < actual; j++) missing.push(j)
FramesBetween(expected, actual) ==
    IF expected < actual THEN [k \in 1..(actual - expected) |-> expected + k - 1]
    ELSE <<>>

\* the loop over i = 1 .. sorted.length - 1 (0-based) of findMissingFrames
RECURSIVE MissingLoop(_, _, _)
MissingLoop(sorted, i, missing) ==
    IF i > Len(sorted) THEN missing
    ELSE MissingLoop(sorted, i + 1,
                     missing \o FramesBetween(sorted[i - 1] + 1, sorted[i]))

findMissingFrames(frames) ==
    IF Len(frames) < 2 THEN <<>>
    ELSE MissingLoop(SortBy(frames, CompareNumbers), 2, <<>>)

\* the default of splitByGaps's maxGap parameter
DefaultMaxGap == 5

\* the last group replaced instead of extended: groups[groups.length - 1] = [x]
PushToLast_Replace(groups, x) ==
    [groups EXCEPT ![Len(groups)] = <<x>>]

\* groups[groups.length - 1].push(x)
PushToLast(groups, x) ==
    [groups EXCEPT ![Len(groups)] = Append(groups[Len(groups)], x)]

\* the loop over i = 1 .. sorted.length - 1 (0-based) of splitByGaps
RECURSIVE SplitLoop(_, _, _, _)
SplitLoop(sorted, i, maxGap, groups) ==
    IF i > Len(sorted) THEN groups
    ELSE LET prev == FrameOrZero(sorted[i - 1])
             curr == FrameOrZero(sorted[i])
             gap == curr - prev
         IN  IF gap > maxGap
             THEN SplitLoop(sorted, i + 1, maxGap, Append(groups, <<sorted[i]>>))
             ELSE SplitLoop(sorted, i + 1, maxGap, PushToLast(groups, sorted[i]))

\* the split taken at gap >= maxGap instead of gap > maxGap
splitByGaps_AtMaxGap(images, maxGap) ==
    IF Len(images) = 0 THEN <<>>
    ELSE LET sorted == SortBy(images, CompareFrames)
         IN  SplitLoop(sorted, 2, maxGap - 1, <<(<<sorted[1]>>)>>)

splitByGaps(images, maxGap) ==
    IF Len(images) = 0 THEN <<>>
    ELSE LET sorted == SortBy(images, CompareFrames)
         IN  SplitLoop(sorted, 2, maxGap, <<(<<sorted[1]>>)>>)

-----------------------------------------------------------------------------
(* detectSequences *)

\* the id without the file's index: `${file.name}-${Date.now()}`
ImageId_NoIndex(name, index, now) == [name |-> name, index |-> 0, now |-> now]

\* `${file.name}-${index}-${Date.now()}`: the three parts determine the string
\* (the last two are numbers, so the string splits back at its last two dashes)
ImageId(name, index, now) == [name |-> name, index |-> index, now |-> now]

\* files.map((file, index) => ...), index counted from 0
NewImageFile(file, index, now) ==
    LET info == extractFrameInfo(file.name)
    IN  [id |-> ImageId(file.name, index, now),
         file |-> file,
         name |-> file.name,
         baseName |-> info.baseName,
         frameNumber |-> info.frameNumber,
         originalSize |-> file.size,
         convertedSize |-> Null,
         convertedBlob |-> Null,
         status |-> "pending",
         error |-> Null]

\* the Map of the grouping loop, as the list of its entries in insertion order
RECURSIVE GroupLoop(_, _, _)
GroupLoop(imageFiles, i, groups) ==
    IF i > Len(imageFiles) THEN groups
    ELSE LET img == imageFiles[i]
             key == ToLowerCase(img.baseName)
             at == {g \in 1..Len(groups) : groups[g].key = key}
         IN  IF at = {}
             THEN GroupLoop(imageFiles, i + 1,
                            Append(groups, [key |-> key, images |-> <<img>>]))
             ELSE GroupLoop(imageFiles, i + 1,
                            [groups EXCEPT ![Min(at)].images = Append(@, img)])

GroupByBaseName(imageFiles) == GroupLoop(imageFiles, 1, <<>>)

\* group.reduce((sum, img) => sum + img.originalSize, 0)
RECURSIVE SumOriginalSize(_)
SumOriginalSize(images) ==
    IF Len(images) = 0 THEN 0
    ELSE SumOriginalSize(SubSeq(images, 1, Len(images) - 1))
         + images[Len(images)].originalSize

\* group.map(img => img.frameNumber).filter(n => n !== null)
RECURSIVE FrameNumbersOf(_)
FrameNumbersOf(images) ==
    IF Len(images) = 0 THEN <<>>
    ELSE FrameNumbersOf(SubSeq(images, 1, Len(images) - 1))
         \o images[Len(images)].frameNumber

\* `seq-${baseName}-${i}-${Date.now()}` and `single-${img.id}`
SequenceId(baseName, i, now) ==
    [prefix |-> "seq", text |-> baseName, index |-> i, now |-> now]
SingleId(imageId) ==
    [prefix |-> "single", text |-> imageId.name, index |-> imageId.index, now |-> imageId.now]

\* `${baseName} (Part ${i + 1})`
PartName(baseName, i) ==
    baseName \o <<" ", "(", "P", "a", "r", "t", " ">> \o NumberToString(i + 1) \o <<")">>

\* the entry pushed for sub-group i (counted from 0) of a bucket
SubGroupSequence(baseName, subGroups, i, now) ==
    LET group == subGroups[i + 1]
    IN  [id |-> SequenceId(baseName, i, now),
         baseName |-> IF Len(subGroups) > 1 THEN PartName(baseName, i) ELSE baseName,
         images |-> SortBy(group, CompareFrames),
         isSequence |-> TRUE,
         missingFrames |-> findMissingFrames(FrameNumbersOf(group)),
         totalOriginalSize |-> SumOriginalSize(group),
         totalConvertedSize |-> 0]

\* the entry pushed for one image of a bucket that is no sequence
SingleSequence(img) ==
    [id |-> SingleId(img.id),
     baseName |-> img.baseName,
     images |-> <<img>>,
     isSequence |-> FALSE,
     missingFrames |-> <<>>,
     totalOriginalSize |-> img.originalSize,
     totalConvertedSize |-> 0]

\* images.some(img => img.frameNumber !== null)
HasFrameNumbers(images) == \E i \in 1..Len(images) : images[i].frameNumber # Null

\* the bucket test without hasFrameNumbers
BucketSequences_AnyPair(baseName, images, now) ==
    IF Len(images) > 1
    THEN LET subGroups == splitByGaps(images, DefaultMaxGap)
         IN  [k \in 1..Len(subGroups) |-> SubGroupSequence(baseName, subGroups, k - 1, now)]
    ELSE [k \in 1..Len(images) |-> SingleSequence(images[k])]

\* the body of the loop over the Map's entries: what one bucket pushes
BucketSequences(baseName, images, now) ==
    IF HasFrameNumbers(images) /\ Len(images) > 1
    THEN LET subGroups == splitByGaps(images, DefaultMaxGap)
         IN  [k \in 1..Len(subGroups) |-> SubGroupSequence(baseName, subGroups, k - 1, now)]
    ELSE [k \in 1..Len(images) |-> SingleSequence(images[k])]

RECURSIVE BucketLoop(_, _, _, _)
BucketLoop(groups, g, now, seqs) ==
    IF g > Len(groups) THEN seqs
    ELSE BucketLoop(groups, g + 1, now,
                    seqs \o BucketSequences(groups[g].key, groups[g].images, now))

\* the final sort by name alone
CompareSequences_ByNameOnly(a, b) == localeCompare(a.baseName, b.baseName)

\* the comparator of the final sort: sequences first, then singles
CompareSequences(a, b) ==
    IF a.isSequence /\ ~b.isSequence THEN -1
    ELSE IF ~a.isSequence /\ b.isSequence THEN 1
    ELSE localeCompare(a.baseName, b.baseName)

\* now[i] is what Date.now() returns for the i-th file, now[Len(fs) + 1] what it
\* returns while the buckets are processed
detectSequences(fs, now) ==
    LET imageFiles == [i \in 1..Len(fs) |-> NewImageFile(fs[i], i - 1, now[i])]
        groups == GroupByBaseName(imageFiles)
    IN  SortBy(BucketLoop(groups, 1, now[Len(fs) + 1], <<>>), CompareSequences)

-----------------------------------------------------------------------------
(* The hook's initial state: useState([]), useState(DEFAULT_SETTINGS),      *)
(* useState(false); no addFiles call made yet.                              *)

DEFAULT_SETTINGS == [quality |-> 90, resize |-> 100, lossless |-> FALSE]

HookIdle ==
    /\ sequences = <<>>
    /\ settings = DEFAULT_SETTINGS
    /\ isConverting = FALSE
    /\ batches = <<>>
    /\ clock = 0

\* no pixel is followed
PixelIdle == pixel = Null

\* the DropZone as it mounts: useState(false), no drop being read
DropIdle ==
    /\ isProcessing = FALSE
    /\ reading = Null

\* no player is followed
PlayerIdle ==
    /\ player = Null
    /\ compare = Null
    /\ preview = Null

\* nothing has been handed to saveAs
ArchiveIdle == archive = Null

-----------------------------------------------------------------------------
(* SpecParse: extractFrameInfo applied to every file name made of a stem of *)
(* at most MaxStemLen characters and one of the endings.                    *)

MaxStemLen == 6

StemChars == {"a", "0", "7", "_", "-", "."}
Endings == {<<>>, <<".", "p">>, <<".">>, <<".", "p", "/">>}

StringsUpTo(chars, n) == UNION {[1..k -> chars] : k \in 0..n}

InitParse ==
    /\ \E stem \in StringsUpTo(StemChars, MaxStemLen) : \E ending \in Endings :
         filename = stem \o ending
    /\ parsed = Null
    /\ files = <<>>
    /\ detected = Null
    /\ HookIdle
    /\ PixelIdle
    /\ DropIdle
    /\ PlayerIdle
    /\ ArchiveIdle
    /\ conversion = Null
    /\ naming = Null

Parse ==
    /\ parsed = Null
    /\ parsed' = Some(extractFrameInfo(filename))
    /\ UNCHANGED <<filename, detectVars, hookVars, convertVars, nameVars, pixelVars, dropVars,
                   playerVars, archiveVars>>

SpecParse == InitParse /\ [][Parse]_vars

-----------------------------------------------------------------------------
(* SpecDetect: detectSequences applied to every list of at most MaxFiles    *)
(* files of the pool.  The pool holds names that differ in letter case only,*)
(* names with and without a frame number, a name that is nothing but an     *)
(* extension and a name without an extension; a list may hold a name twice. *)

MaxFiles == 3

PngName(stem) == stem \o <<".", "p", "n", "g">>

PoolStems ==
    << <<"a">>, <<"a", "_", "1">>, <<"A", "_", "1">>, <<"A", "_", "3">>,
       <<"a", "_", "6">>, <<"a", "_", "7">>, <<"a", "_", "1", "2">>,
       <<"b">>, <<"B">>, <<>> >>

\* names without an extension
BareNames == << <<"a", "_", "1">> >>

PoolNames == [i \in 1..Len(PoolStems) |-> PngName(PoolStems[i])] \o BareNames

\* what a File is made from: its name and its size in bytes
FilePool == {[name |-> PoolNames[i], size |-> i] : i \in 1..Len(PoolNames)}

\* the File objects of one drop or selection: every File is an object of its own,
\* also when two of them have the same name; ref tells the objects apart
FileObjects(list, drop) ==
    [i \in 1..Len(list) |-> [name |-> list[i].name, size |-> list[i].size, ref |-> <<drop, i>>]]

FileLists(pool, n) == UNION {[1..k -> pool] : k \in 0..n}

\* every Date.now() of one synchronous call reads the same clock value
ReadClock(fs, t) == [i \in 1..(Len(fs) + 1) |-> t]

InitDetect ==
    /\ \E list \in FileLists(FilePool, MaxFiles) : files = FileObjects(list, 0)
    /\ detected = Null
    /\ filename = <<>>
    /\ parsed = Null
    /\ HookIdle
    /\ PixelIdle
    /\ DropIdle
    /\ PlayerIdle
    /\ ArchiveIdle
    /\ conversion = Null
    /\ naming = Null

Detect ==
    /\ detected = Null
    /\ detected' = Some(detectSequences(files, ReadClock(files, clock)))
    /\ UNCHANGED <<files, parseVars, hookVars, convertVars, nameVars, pixelVars, dropVars,
                   playerVars, archiveVars>>

SpecDetect == InitDetect /\ [][Detect]_vars

-----------------------------------------------------------------------------
(* convertToWebP: the ways its promise settles.                             *)

MaxBlobSize == 2

\* resolve(blob): the encoder's blob, of some size
Blobs == {[size |-> n] : n \in 1..MaxBlobSize}

\* reject(...): with an Error (img.onerror's, the null context's and the null blob's
\* differ in their message only; one stands for them), or with whatever the drawing
\* code threw, which need not be an Error
Rejections ==
    {[isError |-> TRUE, message |-> "Failed to load image"],
     [isError |-> FALSE, message |-> "thrown value"]}

-----------------------------------------------------------------------------
(* Numbers.  A JavaScript number is an IEEE 754 double: a positive one is   *)
(* held as its 53 significant bits, most significant first, and the weight  *)
(* of the last of them as a power of two; its value is bits * 2^exp.        *)

SignificantBits == 53

Zero == [bits |-> <<>>, exp |-> 0]

\* the binary digits of a natural number, most significant first, none for 0
RECURSIVE BinaryDigits(_)
BinaryDigits(n) == IF n = 0 THEN <<>> ELSE BinaryDigits(n \div 2) \o <<n % 2>>

\* the natural number a run of binary digits stands for
RECURSIVE BitsValue(_)
BitsValue(bits) ==
    IF Len(bits) = 0 THEN 0
    ELSE 2 * BitsValue(SubSeq(bits, 1, Len(bits) - 1)) + bits[Len(bits)]

\* bits + 1; one digit longer when every digit is 1
Increment(bits) ==
    LET zeros == {j \in 1..Len(bits) : bits[j] = 0}
    IN  IF zeros = {} THEN <<1>> \o [j \in 1..Len(bits) |-> 0]
        ELSE [j \in 1..Len(bits) |->
                 IF j < Max(zeros) THEN bits[j] ELSE IF j = Max(zeros) THEN 1 ELSE 0]

\* Rounding to the nearest double, ties to even: bits (the first of them 1, at least
\* SignificantBits of them) is the exact result down to the weight 2^exp, and
\* sticky tells that the exact result has more below that weight.
RoundToDouble(bits, sticky, exp) ==
    LET n == Len(bits)
        excess == n - SignificantBits
        kept == SubSeq(bits, 1, SignificantBits)
        half == IF excess >= 1 THEN bits[SignificantBits + 1] ELSE 0
        below == sticky \/ \E j \in (SignificantBits + 2)..n : bits[j] = 1
        up == half = 1 /\ (below \/ kept[SignificantBits] = 1)
        rounded == IF up THEN Increment(kept) ELSE kept
    IN  IF Len(rounded) > SignificantBits
        THEN [bits |-> SubSeq(rounded, 1, SignificantBits), exp |-> exp + excess + 1]
        ELSE [bits |-> rounded, exp |-> exp + excess]

\* 2^i modulo d, by repeated squaring
RECURSIVE PowerOfTwoMod(_, _)
PowerOfTwoMod(i, d) ==
    IF i = 0 THEN 1 % d
    ELSE LET half == PowerOfTwoMod(i \div 2, d)
         IN  (half * half * (IF i % 2 = 1 THEN 2 ELSE 1)) % d

\* the long division r / d for r < d: the remainder left after i binary digits
\* behind the point, and the i-th of these digits
RemainderAfter(r, d, i) == (PowerOfTwoMod(i, d) * r) % d
FractionDigit(r, d, i) == (2 * RemainderAfter(r, d, i - 1)) \div d

\* n / d for two natural numbers below 2^15, d > 0: the quotient's binary digits
\* from its first 1 on, one more than a double keeps, rounded
Divide(n, d) ==
    IF n = 0 THEN Zero
    ELSE LET whole == BinaryDigits(n \div d)
             r == n % d
             digits == SignificantBits + 1 + Len(BinaryDigits(d))
             quotient == whole \o [i \in 1..digits |-> FractionDigit(r, d, i)]
             first == Min({j \in 1..Len(quotient) : quotient[j] = 1})
             last == first + SignificantBits
         IN  RoundToDouble(SubSeq(quotient, first, last),
                           RemainderAfter(r, d, last - Len(whole)) # 0,
                           Len(whole) - last)

\* the multiplication is done on groups of LimbBits binary digits
LimbBits == 13
LimbBase == 8192

\* the binary digits of n, with zeros in front up to the width
PadLeft(bits, width) == [j \in 1..(width - Len(bits)) |-> 0] \o bits

\* the groups of LimbBits digits of bits, the first group filled up with zeros
Limbs(bits) ==
    LET count == (Len(bits) + LimbBits - 1) \div LimbBits
        padded == PadLeft(bits, count * LimbBits)
    IN  [k \in 1..count |->
            BitsValue(SubSeq(padded, (k - 1) * LimbBits + 1, k * LimbBits))]

\* the digits of limbs * w, from the last group up; w a natural number below 2^15
RECURSIVE TimesLoop(_, _, _, _, _)
TimesLoop(limbs, k, w, carry, product) ==
    IF k = 0 THEN BinaryDigits(carry) \o product
    ELSE LET t == limbs[k] * w + carry
         IN  TimesLoop(limbs, k - 1, w, t \div LimbBase,
                       PadLeft(BinaryDigits(t % LimbBase), LimbBits) \o product)

\* the digits from the first 1 on
DropLeadingZeros(bits) ==
    LET ones == {j \in 1..Len(bits) : bits[j] = 1}
    IN  IF ones = {} THEN <<>> ELSE SubSeq(bits, Min(ones), Len(bits))

\* w * x for a natural number w below 2^15 and a double x
Times(w, x) ==
    IF w = 0 \/ x = Zero THEN Zero
    ELSE LET limbs == Limbs(x.bits)
             product == DropLeadingZeros(TimesLoop(limbs, Len(limbs), w, 0, <<>>))
         IN  RoundToDouble(product, FALSE, x.exp)

\* the value truncated: Math.floor with plain rounding down in place of Math.round
MathRound_Floor(x) ==
    LET whole == SignificantBits + x.exp
    IN  IF x = Zero \/ whole <= 0 THEN 0
        ELSE BitsValue(SubSeq(x.bits, 1, whole))

\* Math.round(x) for a double x >= 0 below 2^52: the integer part, and one more when
\* the first digit behind the point is 1 (a value halfway rounds up)
MathRound(x) ==
    LET whole == SignificantBits + x.exp
    IN  IF x = Zero \/ whole < 0 THEN 0
        ELSE BitsValue(SubSeq(x.bits, 1, whole)) + x.bits[whole + 1]

-----------------------------------------------------------------------------
(* convertToWebP *)

\* quality and lossless never looked at: settings.quality / 100 whatever lossless is
EncoderQuality_IgnoreLossless(s) == Divide(s.quality, 100)

\* settings.lossless ? 1 : settings.quality / 100
EncoderQuality(s) == IF s.lossless THEN Divide(1, 1) ELSE Divide(s.quality, 100)

\* Math.round(size * scale), scale = settings.resize / 100
ScaledSize(size, s) == MathRound(Times(size, Divide(s.resize, 100)))

\* the errors convertToWebP makes itself
LoadError == [isError |-> TRUE, message |-> "Failed to load image"]
ContextError == [isError |-> TRUE, message |-> "Failed to get canvas context"]
EncodeError == [isError |-> TRUE, message |-> "Failed to convert image"]

\* what drawImage or toBlob may throw: an Error, or a value that is none
Thrown == {[isError |-> TRUE, message |-> "draw failed"],
           [isError |-> FALSE, message |-> "thrown value"]}

Pending == [state |-> "pending", value |-> Null]
Fulfilled(blob) == [state |-> "fulfilled", value |-> Some(blob)]
Rejected(err) == [state |-> "rejected", value |-> Some(err)]

\* convertToWebP(file, settings) up to the return of its promise: the object URL is
\* made and set as the image's source.  image is what the file decodes to.
StartConversion(s, image) ==
    [settings |-> s,
     image |-> image,
     stage |-> "loading",
     canvas |-> Null,
     toBlobQuality |-> Null,
     revoked |-> 0,
     promise |-> Pending]

\* img.onerror
ImageError ==
    /\ conversion # Null
    /\ conversion[1].stage = "loading"
    /\ conversion' = Some([conversion[1] EXCEPT !.revoked = @ + 1,
                                                !.promise = Rejected(LoadError),
                                                !.stage = "settled"])
    /\ UNCHANGED <<parseVars, detectVars, hookVars, nameVars, pixelVars, dropVars, playerVars,
                   archiveVars>>

\* img.onload: getContext('2d') gives a context or null, and the drawing code runs
\* through or throws
ImageLoad(hasContext, thrown) ==
    /\ conversion # Null
    /\ conversion[1].stage = "loading"
    /\ LET call == conversion[1]
           canvas == [width |-> ScaledSize(call.image.width, call.settings),
                      height |-> ScaledSize(call.image.height, call.settings)]
       IN  conversion' = Some(
             IF ~hasContext
             THEN [call EXCEPT !.canvas = Some(canvas),
                               !.promise = Rejected(ContextError),
                               !.stage = "settled"]
             ELSE IF thrown # Null
             THEN [call EXCEPT !.canvas = Some(canvas),
                               !.revoked = @ + 1,
                               !.promise = Rejected(thrown[1]),
                               !.stage = "settled"]
             ELSE [call EXCEPT !.canvas = Some(canvas),
                               !.toBlobQuality = Some(EncoderQuality(call.settings)),
                               !.stage = "encoding"])
    /\ UNCHANGED <<parseVars, detectVars, hookVars, nameVars, pixelVars, dropVars, playerVars,
                   archiveVars>>

\* the callback of canvas.toBlob, with the encoder's blob or with null
BlobCallback(blob) ==
    /\ conversion # Null
    /\ conversion[1].stage = "encoding"
    /\ conversion' = Some([conversion[1] EXCEPT
                             !.revoked = @ + 1,
                             !.promise = IF blob # Null THEN Fulfilled(blob[1])
                                         ELSE Rejected(EncodeError),
                             !.stage = "settled"])
    /\ UNCHANGED <<parseVars, detectVars, hookVars, nameVars, pixelVars, dropVars, playerVars,
                   archiveVars>>

-----------------------------------------------------------------------------
(* SpecConvert: one convertToWebP call, for each of the settings and each   *)
(* image size chosen.                                                       *)

QualityChoices == {10, 90, 100}
ResizeChoices == {1, 29, 50, 100}
NaturalSizes == {1, 3, 50, 100, 200}

ConversionSettings ==
    [quality : QualityChoices, resize : ResizeChoices, lossless : BOOLEAN]

InitConvert ==
    /\ \E s \in ConversionSettings : \E w \in NaturalSizes : \E h \in NaturalSizes :
         conversion = Some(StartConversion(s, [width |-> w, height |-> h]))
    /\ filename = <<>>
    /\ parsed = Null
    /\ files = <<>>
    /\ detected = Null
    /\ HookIdle
    /\ PixelIdle
    /\ DropIdle
    /\ PlayerIdle
    /\ ArchiveIdle
    /\ naming = Null

NextConvert ==
    \/ ImageError
    \/ \E hasContext \in BOOLEAN : \E thrown \in {Null} \cup {Some(v) : v \in Thrown} :
         ImageLoad(hasContext, thrown)
    \/ \E blob \in {Null} \cup {Some(b) : b \in Blobs} : BlobCallback(blob)

SpecConvert == InitConvert /\ [][NextConvert]_vars

-----------------------------------------------------------------------------
(* isAcceptedImage, getWebPFileName *)

ACCEPTED_TYPES ==
    {"image/png", "image/jpeg", "image/jpg", "image/gif", "image/bmp", "image/tiff",
     "image/webp"}

ACCEPTED_EXTENSIONS ==
    {<<".", "p", "n", "g">>, <<".", "j", "p", "g">>, <<".", "j", "p", "e", "g">>,
     <<".", "g", "i", "f">>, <<".", "b", "m", "p">>, <<".", "t", "i", "f", "f">>,
     <<".", "t", "i", "f">>, <<".", "w", "e", "b", "p">>}

\* name.split('.').pop(): what follows the last '.', the whole name when it has none
LastSegment(name) ==
    LET dots == {i \in 1..Len(name) : name[i] = "."}
    IN  IF dots = {} THEN name ELSE SubSeq(name, Max(dots) + 1, Len(name))

isAcceptedImage(file) ==
    \/ file.type \in ACCEPTED_TYPES
    \/ <<".">> \o ToLowerCase(LastSegment(file.name)) \in ACCEPTED_EXTENSIONS

\* originalName.replace(/\.[^/.]+$/, '.webp')
getWebPFileName(originalName) ==
    IF ExtensionStarts(originalName) = {} THEN originalName
    ELSE SubSeq(originalName, 1, Min(ExtensionStarts(originalName)) - 1)
         \o <<".", "w", "e", "b", "p">>

-----------------------------------------------------------------------------
(* SpecFileName: a file is offered to the drop zone and, when the filter    *)
(* lets it through, later saved under the name getWebPFileName gives.       *)

MaxNameStemLen == 3

NameChars == {"a", "A", "."}
NameEndings ==
    {<<>>, <<".", "p", "n", "g">>, <<".", "P", "N", "G">>, <<"p", "n", "g">>, <<".">>,
     <<".", "w", "e", "b", "p">>}
\* File.type: the browser's MIME type for the file, empty when it knows none
FileTypes == {"image/png", ""}

InitFileName ==
    /\ \E stem \in StringsUpTo(NameChars, MaxNameStemLen) : \E ending \in NameEndings :
       \E type \in FileTypes :
         /\ \E i \in 1..Len(stem \o ending) : (stem \o ending)[i] # "."
         /\ naming = Some([file |-> [name |-> stem \o ending, type |-> type],
                           suggested |-> Null])
    /\ filename = <<>>
    /\ parsed = Null
    /\ files = <<>>
    /\ detected = Null
    /\ HookIdle
    /\ PixelIdle
    /\ DropIdle
    /\ PlayerIdle
    /\ ArchiveIdle
    /\ conversion = Null

\* the file passes files.filter(isAcceptedImage), becomes an image with
\* name: file.name, and is saved with saveAs(blob, getWebPFileName(image.name))
SuggestName ==
    /\ naming # Null
    /\ naming[1].suggested = Null
    /\ isAcceptedImage(naming[1].file)
    /\ naming' = Some([naming[1] EXCEPT !.suggested = Some(getWebPFileName(naming[1].file.name))])
    /\ UNCHANGED <<parseVars, detectVars, hookVars, convertVars, pixelVars, dropVars,
                   playerVars, archiveVars>>

SpecFileName == InitFileName /\ [][SuggestName]_vars

-----------------------------------------------------------------------------
(* useImageConverter *)

\* setSequences(prev => prev.map(seq => ({...seq, images: seq.images.map(Update)})))
MapImages(seqs, Update(_)) ==
    [k \in 1..Len(seqs) |->
        [seqs[k] EXCEPT !.images = [i \in 1..Len(seqs[k].images) |-> Update(seqs[k].images[i])]]]

\* img.id === image.id ? { ...img, status: 'converting' } : img
SetConverting(seqs, id) ==
    LET Update(img) == IF img.id = id THEN [img EXCEPT !.status = "converting"] ELSE img
    IN  MapImages(seqs, Update)

\* img.id === image.id ? { ...img, status: 'done', convertedBlob: blob, convertedSize: blob.size } : img
SetDone(seqs, id, blob) ==
    LET Update(img) == IF img.id = id
                       THEN [img EXCEPT !.status = "done",
                                        !.convertedBlob = Some(blob),
                                        !.convertedSize = Some(blob.size)]
                       ELSE img
    IN  MapImages(seqs, Update)

\* error instanceof Error ? error.message : 'Unknown error'
ErrorMessage(err) == IF err.isError THEN err.message ELSE "Unknown error"

\* img.id === image.id ? { ...img, status: 'error', error: ... } : img
SetError(seqs, id, err) ==
    LET Update(img) == IF img.id = id
                       THEN [img EXCEPT !.status = "error", !.error = Some(ErrorMessage(err))]
                       ELSE img
    IN  MapImages(seqs, Update)

\* the images the two nested for loops of addFiles visit, in their order
RECURSIVE LoopImages(_)
LoopImages(seqs) ==
    IF Len(seqs) = 0 THEN <<>>
    ELSE LoopImages(SubSeq(seqs, 1, Len(seqs) - 1)) \o seqs[Len(seqs)].images

MaxBatches == 2
MaxBatchFiles == 2
MaxClock == 1

\* the files a caller hands to addFiles
HookFilePool ==
    {[name |-> PngName(<<"a", "_", "1">>), size |-> 1],
     [name |-> PngName(<<"b">>), size |-> 2]}

\* the values a caller hands to updateSettings
SettingsChoices ==
    {DEFAULT_SETTINGS, [quality |-> 50, resize |-> 50, lossless |-> TRUE]}

\* One addFiles call: the images its loops visit (from its own newSequences), the
\* settings its closure holds, the settings state at the time of the call, the
\* settings handed to each convertToWebP call made so far, the place of its loop
\* (the image whose conversion it awaits), and how the conversions it has awaited
\* so far ended: TRUE for a call that resolved, FALSE for one that rejected.
NewBatch(newSequences, closureSettings) ==
    [images |-> LoopImages(newSequences),
     settings |-> closureSettings,
     called |-> settings,
     used |-> IF Len(LoopImages(newSequences)) = 0 THEN <<>> ELSE <<closureSettings>>,
     pos |-> 1,
     outcomes |-> <<>>,
     finished |-> Len(LoopImages(newSequences)) = 0]

\* addFiles up to its first await: detectSequences, the two state updates, and the
\* first image's 'converting' update and convertToWebP call; with no image to
\* convert it runs to its end.  closureSettings are the settings of the render
\* that made the callback the caller holds (useCallback(..., [settings])).
CallAddFiles(fs, closureSettings) ==
    /\ Len(batches) < MaxBatches
    /\ LET newSequences == detectSequences(fs, ReadClock(fs, clock))
           batch == NewBatch(newSequences, closureSettings)
           appended == sequences \o newSequences
       IN  /\ batches' = Append(batches, batch)
           /\ IF batch.finished
              THEN /\ sequences' = appended
                   /\ isConverting' = FALSE
              ELSE /\ sequences' = SetConverting(appended, batch.images[1].id)
                   /\ isConverting' = TRUE
    /\ UNCHANGED <<settings, clock>>

\* addFiles called by a caller that holds the callback of the latest render
AddFiles(list) ==
    /\ CallAddFiles(FileObjects(list, Len(batches) + 1), settings)
    /\ UNCHANGED <<parseVars, detectVars, convertVars, nameVars, pixelVars, dropVars, playerVars,
                   archiveVars>>

\* addFiles with setIsConverting(false) reached only when the last conversion resolved
Continue_KeepsConverting(b, resolved, updated) ==
    LET batch == batches[b]
        last == batch.pos = Len(batch.images)
    IN  /\ batches' = [batches EXCEPT ![b].outcomes = Append(@, resolved),
                                      ![b].used = IF last THEN @ ELSE Append(@, batch.settings),
                                      ![b].pos = IF last THEN @ ELSE @ + 1,
                                      ![b].finished = last]
        /\ IF last
           THEN /\ sequences' = updated
                /\ isConverting' = ~resolved
           ELSE /\ sequences' = SetConverting(updated, batch.images[batch.pos + 1].id)
                /\ UNCHANGED isConverting
        /\ UNCHANGED <<settings, clock, parseVars, detectVars, convertVars, nameVars, pixelVars,
                       dropVars, playerVars, archiveVars>>

\* addFiles after an await: the rest of the loop body is done, then either the next
\* image's 'converting' update and convertToWebP call, or setIsConverting(false)
Continue(b, resolved, updated) ==
    LET batch == batches[b]
        last == batch.pos = Len(batch.images)
    IN  /\ batches' = [batches EXCEPT ![b].outcomes = Append(@, resolved),
                                      ![b].used = IF last THEN @ ELSE Append(@, batch.settings),
                                      ![b].pos = IF last THEN @ ELSE @ + 1,
                                      ![b].finished = last]
        /\ IF last
           THEN /\ sequences' = updated
                /\ isConverting' = FALSE
           ELSE /\ sequences' = SetConverting(updated, batch.images[batch.pos + 1].id)
                /\ UNCHANGED isConverting
        /\ UNCHANGED <<settings, clock, parseVars, detectVars, convertVars, nameVars,
                       pixelVars, dropVars, playerVars, archiveVars>>

\* the 'done' update made on the images of the call instead of on prev
ConversionResolved_FromSnapshot(b, blob) ==
    /\ ~batches[b].finished
    /\ Continue(b, TRUE,
                SetDone(<<[images |-> batches[b].images]>>,
                        batches[b].images[batches[b].pos].id, blob))

\* the awaited convertToWebP call of batch b resolves with a blob
ConversionResolved(b, blob) ==
    /\ ~batches[b].finished
    /\ Continue(b, TRUE,
                SetDone(sequences, batches[b].images[batches[b].pos].id, blob))

\* the awaited convertToWebP call of batch b rejects
ConversionRejected(b, err) ==
    /\ ~batches[b].finished
    /\ Continue(b, FALSE,
                SetError(sequences, batches[b].images[batches[b].pos].id, err))

\* clear
Clear ==
    /\ sequences' = <<>>
    /\ UNCHANGED <<settings, isConverting, batches, clock, parseVars, detectVars, convertVars,
                   nameVars, pixelVars, dropVars, playerVars, archiveVars>>

\* updateSettings
UpdateSettings(newSettings) ==
    /\ settings' = newSettings
    /\ UNCHANGED <<sequences, isConverting, batches, clock, parseVars, detectVars, convertVars,
                   nameVars, pixelVars, dropVars, playerVars, archiveVars>>

\* time passes: Date.now() returns a later value
Tick ==
    /\ clock < MaxClock
    /\ clock' = clock + 1
    /\ UNCHANGED <<sequences, settings, isConverting, batches, parseVars, detectVars,
                   convertVars, nameVars, pixelVars, dropVars, playerVars, archiveVars>>

Init ==
    /\ HookIdle
    /\ PixelIdle
    /\ DropIdle
    /\ PlayerIdle
    /\ ArchiveIdle
    /\ filename = <<>>
    /\ parsed = Null
    /\ files = <<>>
    /\ detected = Null
    /\ conversion = Null
    /\ naming = Null

Next ==
    \/ \E list \in FileLists(HookFilePool, MaxBatchFiles) : AddFiles(list)
    \/ \E b \in 1..Len(batches) : \E blob \in Blobs : ConversionResolved(b, blob)
    \/ \E b \in 1..Len(batches) : \E err \in Rejections : ConversionRejected(b, err)
    \/ Clear
    \/ \E newSettings \in SettingsChoices : UpdateSettings(newSettings)
    \/ Tick

Spec == Init /\ [][Next]_vars

\* the behaviours in which no two addFiles calls read the same clock value
NoEarlierRead ==
    \A b \in 1..Len(batches) : \A j \in 1..Len(batches[b].images) :
        batches[b].images[j].id.now # clock

NextFreshClock ==
    \/ \E list \in FileLists(HookFilePool, MaxBatchFiles) : NoEarlierRead /\ AddFiles(list)
    \/ \E b \in 1..Len(batches) : \E blob \in Blobs : ConversionResolved(b, blob)
    \/ \E b \in 1..Len(batches) : \E err \in Rejections : ConversionRejected(b, err)
    \/ Clear
    \/ \E newSettings \in SettingsChoices : UpdateSettings(newSettings)
    \/ Tick

SpecFreshClock == Init /\ [][NextFreshClock]_vars

\* the hook used for one addFiles call: one drop or selection of files, converted,
\* with clear and updateSettings called at any time
OneCallFilePool ==
    HookFilePool \cup {[name |-> PngName(<<"a", "_", "7">>), size |-> 3]}

NextOneCall ==
    \/ \E list \in FileLists(OneCallFilePool, MaxBatchFiles) : batches = <<>> /\ AddFiles(list)
    \/ \E b \in 1..Len(batches) : \E blob \in Blobs : ConversionResolved(b, blob)
    \/ \E b \in 1..Len(batches) : \E err \in Rejections : ConversionRejected(b, err)
    \/ Clear
    \/ \E newSettings \in SettingsChoices : UpdateSettings(newSettings)
    \/ Tick

SpecOneCall == Init /\ [][NextOneCall]_vars

-----------------------------------------------------------------------------
(* extractLuminance, applyLuminance.  A luminance is held in thousandths,   *)
(* so that the weights 0.299, 0.587 and 0.114 and the threshold 0.001 are   *)
(* whole numbers and the quotient of two luminances is an exact fraction.   *)

LuminanceUnit == 1000
NearBlack == 1

\* L = 0.299 R + 0.587 G + 0.114 B; alpha is ignored
extractLuminance(px) == 299 * px.r + 587 * px.g + 114 * px.b

\* num / den clamped to [0, 255] and rounded to the nearest integer
ClampAndRound(num, den) ==
    IF num <= 0 THEN 0
    ELSE IF num >= 255 * den THEN 255
    ELSE (2 * num + den) \div (2 * den)

\* a channel times the luminance alone, the division by the old luminance left out
ScaleChannel_NoDivide(c, old, new) == ClampAndRound(c * new, LuminanceUnit)

\* a channel times scale = newMap[i] / oldMap[i]
ScaleChannel(c, old, new) == ClampAndRound(c * new, old)

\* a channel plus newMap[i] - oldMap[i]
ShiftChannel(c, old, new) == ClampAndRound(c * LuminanceUnit + new - old, LuminanceUnit)

\* one pixel of applyLuminance: near-black pixels are shifted, every other pixel is
\* scaled; the alpha channel is never modified
applyLuminance(px, old, new) ==
    IF old < NearBlack
    THEN [r |-> ShiftChannel(px.r, old, new), g |-> ShiftChannel(px.g, old, new),
          b |-> ShiftChannel(px.b, old, new), a |-> px.a]
    ELSE [r |-> ScaleChannel(px.r, old, new), g |-> ScaleChannel(px.g, old, new),
          b |-> ScaleChannel(px.b, old, new), a |-> px.a]

(* SpecLuminance: one RGBA pixel, its luminance extracted, a new luminance   *)
(* (the same one, a brighter or a darker one) and applyLuminance.            *)

ChannelChoices == {0, 1, 128, 255}
AlphaChoices == {0, 255}
LuminanceStep == 10

\* what denoise and sharpen may hand back for a pixel: the luminance itself, or
\* one LuminanceStep away from it, within [0, 255]
NewLuminances(old) ==
    {old,
     IF old + LuminanceStep * LuminanceUnit > 255 * LuminanceUnit
     THEN 255 * LuminanceUnit ELSE old + LuminanceStep * LuminanceUnit,
     IF old < LuminanceStep * LuminanceUnit THEN 0 ELSE old - LuminanceStep * LuminanceUnit}

InitLuminance ==
    /\ \E r \in ChannelChoices : \E g \in ChannelChoices : \E b \in ChannelChoices :
       \E a \in AlphaChoices :
         pixel = Some([pixels |-> [r |-> r, g |-> g, b |-> b, a |-> a],
                       oldMap |-> Null, newMap |-> Null, result |-> Null])
    /\ filename = <<>>
    /\ parsed = Null
    /\ files = <<>>
    /\ detected = Null
    /\ HookIdle
    /\ conversion = Null
    /\ naming = Null
    /\ DropIdle
    /\ PlayerIdle
    /\ ArchiveIdle

ExtractLuminance ==
    /\ pixel # Null
    /\ pixel[1].oldMap = Null
    /\ pixel' = Some([pixel[1] EXCEPT !.oldMap = Some(extractLuminance(pixel[1].pixels))])
    /\ UNCHANGED <<parseVars, detectVars, hookVars, convertVars, nameVars, dropVars, playerVars,
                   archiveVars>>

ApplyLuminance(new) ==
    /\ pixel # Null
    /\ pixel[1].oldMap # Null
    /\ pixel[1].result = Null
    /\ pixel' = Some([pixel[1] EXCEPT
                        !.newMap = Some(new),
                        !.result = Some(applyLuminance(pixel[1].pixels, pixel[1].oldMap[1], new))])
    /\ UNCHANGED <<parseVars, detectVars, hookVars, convertVars, nameVars, dropVars, playerVars,
                   archiveVars>>

NextLuminance ==
    \/ ExtractLuminance
    \/ \E new \in NewLuminances(IF pixel # Null /\ pixel[1].oldMap # Null
                                THEN pixel[1].oldMap[1] ELSE 0) : ApplyLuminance(new)

SpecLuminance == InitLuminance /\ [][NextLuminance]_vars

-----------------------------------------------------------------------------
(* App: the DropZone wired to the hook.  App renders                         *)
(* <DropZone onFilesSelected={addFiles} disabled={isConverting}/> and        *)
(* <SettingsPanel onChange={updateSettings} disabled={isConverting}/>; every *)
(* state change is rendered before the next event is handled, so a handler   *)
(* sees the disabled, isProcessing and onFilesSelected of the current state. *)
(* A handleDrop call that awaits processDataTransferItems keeps the          *)
(* onFilesSelected of the render it was started in.                          *)

TxtName(stem) == stem \o <<".", "t", "x", "t">>

\* what the user offers: a PNG with its MIME type, a PNG whose type the browser
\* does not know, and a text file
AppFilePool ==
    {[name |-> PngName(<<"a", "_", "1">>), size |-> 1, type |-> "image/png"],
     [name |-> PngName(<<"b">>), size |-> 2, type |-> ""],
     [name |-> TxtName(<<"n">>), size |-> 3, type |-> "text/plain"]}

\* the File objects of one drop or selection, each with its MIME type
TypedFileObjects(list, call) ==
    [i \in 1..Len(list) |->
        [name |-> list[i].name, size |-> list[i].size, type |-> list[i].type,
         ref |-> <<call, i>>]]

\* files.filter(isAcceptedImage)
RECURSIVE FilterAccepted(_)
FilterAccepted(list) ==
    IF Len(list) = 0 THEN <<>>
    ELSE IF isAcceptedImage(list[1]) THEN <<list[1]>> \o FilterAccepted(Tail(list))
    ELSE FilterAccepted(Tail(list))

\* if (disabled || isProcessing) return, answered for every file that is offered
Blocked_DisabledOnly(disabled) == disabled

\* if (disabled || isProcessing) return
Blocked(disabled) == disabled \/ isProcessing

\* what a drop carries: file entries (entry.file may fail, and then yields null),
\* directory entries (readEntries may reject) and items that are no files
FileEntry(f) == [kind |-> "file", file |-> Some(f)]
UnreadableEntry == [kind |-> "file", file |-> Null]
DirectoryEntry(children, rejects) ==
    [kind |-> "directory", children |-> children, rejects |-> rejects]
StringItem == [kind |-> "string"]

\* the selections the user makes in a picker, or drops where the browser gives no
\* dataTransfer.items: one image, the same image with another, a text file alone,
\* a text file with an image
Selections ==
    LET a == CHOOSE f \in AppFilePool : f.size = 1
        b == CHOOSE f \in AppFilePool : f.size = 2
        n == CHOOSE f \in AppFilePool : f.size = 3
    IN  {<<a>>, <<a, b>>, <<n>>, <<n, a>>}

\* the drops the user makes: one image; a folder with an image, a text file and a
\* file that cannot be read, next to a dragged text selection; a folder in a folder
\* next to an image; an image and a folder whose reading is rejected; a text file
DropLists ==
    LET a == CHOOSE f \in AppFilePool : f.size = 1
        b == CHOOSE f \in AppFilePool : f.size = 2
        n == CHOOSE f \in AppFilePool : f.size = 3
    IN  {<<FileEntry(a)>>,
         <<DirectoryEntry(<<FileEntry(b), FileEntry(n), UnreadableEntry>>, FALSE), StringItem>>,
         <<DirectoryEntry(<<DirectoryEntry(<<FileEntry(a)>>, FALSE)>>, FALSE), FileEntry(b)>>,
         <<FileEntry(a), DirectoryEntry(<<>>, TRUE)>>,
         <<FileEntry(n)>>}

\* how an await of the reading ends: the files read, or a rejection
ReadFiles(fs) == [threw |-> FALSE, files |-> fs]
ReadRejected == [threw |-> TRUE, files |-> <<>>]

\* readDirectoryEntries, and the loop over entries that it shares with
\* processDataTransferItems: files that pass isAcceptedImage are kept, directories
\* are read in turn, a rejected readEntries ends the whole reading
RECURSIVE readDirectoryEntries(_), ReadEntryList(_)
readDirectoryEntries(entry) ==
    IF entry.rejects THEN ReadRejected ELSE ReadEntryList(entry.children)

ReadEntryList(entries) ==
    IF Len(entries) = 0 THEN ReadFiles(<<>>)
    ELSE LET entry == entries[1]
             first == IF entry.kind = "directory" THEN readDirectoryEntries(entry)
                      ELSE IF entry.kind = "file" /\ entry.file # Null
                              /\ isAcceptedImage(entry.file[1])
                      THEN ReadFiles(<<entry.file[1]>>)
                      ELSE ReadFiles(<<>>)
             rest == ReadEntryList(Tail(entries))
         IN  IF first.threw THEN ReadRejected
             ELSE IF rest.threw THEN ReadRejected
             ELSE ReadFiles(first.files \o rest.files)

\* processDataTransferItems: items of kind 'file' give their entries, which are read
processDataTransferItems(items) ==
    ReadEntryList(SelectSeq(items, LAMBDA item : item.kind # "string"))

\* onFilesSelected(files) when files.length > 0, with the addFiles the handler holds
SelectFiles(fs, closureSettings) ==
    IF Len(fs) > 0
    THEN CallAddFiles(TypedFileObjects(fs, Len(batches) + 1), closureSettings)
    ELSE UNCHANGED hookVars

\* handleFileInput: a selection in the file or folder picker
HandleFileInput(list) ==
    /\ Len(batches) < MaxBatches
    /\ IF Blocked(isConverting) THEN UNCHANGED hookVars
       ELSE SelectFiles(FilterAccepted(list), settings)
    /\ UNCHANGED <<parseVars, detectVars, convertVars, nameVars, pixelVars, dropVars, playerVars,
                   archiveVars>>

\* handleDrop where dataTransfer.items is missing or empty: the files are filtered
\* and handed on in the same task, isProcessing is set and reset within it
HandleDropFiles(list) ==
    /\ Len(batches) < MaxBatches
    /\ IF Blocked(isConverting) THEN UNCHANGED hookVars
       ELSE SelectFiles(FilterAccepted(list), settings)
    /\ UNCHANGED <<parseVars, detectVars, convertVars, nameVars, pixelVars, dropVars, playerVars,
                   archiveVars>>

\* handleDrop with dataTransfer.items, up to its await: isProcessing is set and the
\* reading of the entries begins
HandleDropItems(items) ==
    /\ Len(batches) < MaxBatches
    /\ IF Blocked(isConverting) THEN UNCHANGED dropVars
       ELSE /\ isProcessing' = TRUE
            /\ reading' = Some([items |-> items, onFilesSelected |-> settings])
    /\ UNCHANGED <<parseVars, detectVars, hookVars, convertVars, nameVars, pixelVars, playerVars,
                   archiveVars>>

\* handleDrop after its await: the files read are handed on, or the reading has
\* rejected; finally isProcessing is reset
DropRead ==
    /\ reading # Null
    /\ LET read == processDataTransferItems(reading[1].items)
       IN  IF read.threw THEN UNCHANGED hookVars
           ELSE SelectFiles(read.files, reading[1].onFilesSelected)
    /\ isProcessing' = FALSE
    /\ reading' = Null
    /\ UNCHANGED <<parseVars, detectVars, convertVars, nameVars, pixelVars, playerVars, archiveVars>>

\* the settings panel is disabled while isConverting
ChangeSettings(newSettings) ==
    /\ ~isConverting
    /\ UpdateSettings(newSettings)

\* how a conversion ends in SpecApp: with one blob, or with one rejection
AppBlob == CHOOSE blob \in Blobs : blob.size = 1
AppRejection == CHOOSE err \in Rejections : err.isError

InitApp == Init

NextApp ==
    \/ \E list \in Selections : HandleFileInput(list)
    \/ \E list \in Selections : HandleDropFiles(list)
    \/ \E items \in DropLists : HandleDropItems(items)
    \/ DropRead
    \/ \E b \in 1..Len(batches) : ConversionResolved(b, AppBlob)
    \/ \E b \in 1..Len(batches) : ConversionRejected(b, AppRejection)
    \/ Clear
    \/ \E newSettings \in SettingsChoices : ChangeSettings(newSettings)
    \/ Tick

SpecApp == InitApp /\ [][NextApp]_vars

\* a convertToWebP call that is awaited settles
Settle ==
    \/ \E b \in 1..Len(batches) : ConversionResolved(b, AppBlob)
    \/ \E b \in 1..Len(batches) : ConversionRejected(b, AppRejection)

\* every convertToWebP call settles: the image loads or fails to, and toBlob calls back
SpecAppFair == SpecApp /\ WF_vars(Settle)

-----------------------------------------------------------------------------
(* SequencePlayer, ImageCompare, PreviewPanel.  The three components keep   *)
(* currentFrame, isPlaying and loop and share their playback code.  A click *)
(* is modelled with the effects of the render it causes.                    *)

\* useState(0), useState(false), useState(true)
PlaybackIdle == [currentFrame |-> 0, isPlaying |-> FALSE, loop |-> TRUE]

\* the interval callback: setCurrentFrame(prev => ...)
TickFrame(st, totalFrames) ==
    LET next == st.currentFrame + 1
    IN  IF next >= totalFrames
        THEN IF st.loop THEN [st EXCEPT !.currentFrame = 0]
             ELSE [st EXCEPT !.isPlaying = FALSE]
        ELSE [st EXCEPT !.currentFrame = next]

\* handlePlayPause
PlayPause(st, totalFrames) ==
    [st EXCEPT !.currentFrame = IF st.currentFrame >= totalFrames - 1 /\ ~st.loop THEN 0 ELSE @,
               !.isPlaying = ~@]

\* the slider's onValueChange
Seek(st, value) == [st EXCEPT !.currentFrame = value, !.isPlaying = FALSE]

\* setLoop(prev => !prev)
ToggleLoop(st) == [st EXCEPT !.loop = ~@]

MaxFrames == 3

\* the images.length of the sequences the panel is given, all converted: two
\* frame sequences and a single image
FrameCounts == <<MaxFrames, 2, 1>>

\* SequencePlayer: totalFrames = sortedImages.length
PlayerTotalFrames == MaxFrames

\* PreviewPanel: currentSequence, isSequence, totalFrames
PreviewCount == FrameCounts[preview[1].selectedSequenceIndex + 1]
PreviewIsSequence == PreviewCount > 1
PreviewTotalFrames == PreviewCount

\* ImageCompare: frames is sequenceFrames for a frame sequence and is not given
\* for a single image; isSequence = frames && frames.length > 1, totalFrames =
\* frames?.length || 1
CompareIsSequence == PreviewCount > 1
CompareTotalFrames == IF PreviewCount > 1 THEN PreviewCount ELSE 1

OtherThanPlayers ==
    <<parseVars, detectVars, hookVars, convertVars, nameVars, pixelVars, dropVars, archiveVars>>

(* SequencePlayer *)

PlayerTick ==
    /\ player[1].isPlaying
    /\ player' = Some(TickFrame(player[1], PlayerTotalFrames))
    /\ UNCHANGED <<compare, preview, OtherThanPlayers>>

PlayerPlayPause ==
    /\ player' = Some(PlayPause(player[1], PlayerTotalFrames))
    /\ UNCHANGED <<compare, preview, OtherThanPlayers>>

\* handleFirst
PlayerFirst ==
    /\ player' = Some([player[1] EXCEPT !.currentFrame = 0, !.isPlaying = FALSE])
    /\ UNCHANGED <<compare, preview, OtherThanPlayers>>

\* handleLast
PlayerLast ==
    /\ player' = Some([player[1] EXCEPT !.currentFrame = PlayerTotalFrames - 1,
                                        !.isPlaying = FALSE])
    /\ UNCHANGED <<compare, preview, OtherThanPlayers>>

\* handlePrevious: Math.max(0, prev - 1)
PlayerPrevious ==
    /\ player' = Some([player[1] EXCEPT !.currentFrame = Max({0, @ - 1})])
    /\ UNCHANGED <<compare, preview, OtherThanPlayers>>

\* handleNext: Math.min(totalFrames - 1, prev + 1)
PlayerNext ==
    /\ player' = Some([player[1] EXCEPT !.currentFrame = Min({PlayerTotalFrames - 1, @ + 1})])
    /\ UNCHANGED <<compare, preview, OtherThanPlayers>>

PlayerSeek(value) ==
    /\ player' = Some(Seek(player[1], value))
    /\ UNCHANGED <<compare, preview, OtherThanPlayers>>

PlayerToggleLoop ==
    /\ player' = Some(ToggleLoop(player[1]))
    /\ UNCHANGED <<compare, preview, OtherThanPlayers>>

(* ImageCompare, as PreviewPanel renders it in compare mode.  The element for *)
(* a frame sequence and the element for a single image stand at the same     *)
(* place of the tree, so one ImageCompare instance lives on with its state   *)
(* when the panel goes to another sequence.                                  *)

CompareTick ==
    /\ compare # Null
    /\ CompareIsSequence
    /\ compare[1].isPlaying
    /\ compare' = Some(TickFrame(compare[1], CompareTotalFrames))
    /\ UNCHANGED <<player, preview, OtherThanPlayers>>

ComparePlayPause ==
    /\ compare # Null
    /\ CompareIsSequence
    /\ compare' = Some(PlayPause(compare[1], CompareTotalFrames))
    /\ UNCHANGED <<player, preview, OtherThanPlayers>>

CompareSeek(value) ==
    /\ compare # Null
    /\ CompareIsSequence
    /\ value <= CompareTotalFrames - 1
    /\ compare' = Some(Seek(compare[1], value))
    /\ UNCHANGED <<player, preview, OtherThanPlayers>>

CompareToggleLoop ==
    /\ compare # Null
    /\ CompareIsSequence
    /\ compare' = Some(ToggleLoop(compare[1]))
    /\ UNCHANGED <<player, preview, OtherThanPlayers>>

(* PreviewPanel *)

\* handlePrevious, handleNext and the effect on [selectedSequenceIndex]:
\* setCurrentFrame(0), setIsPlaying(false)
PreviewSelect(index) ==
    /\ index # preview[1].selectedSequenceIndex
    /\ preview' = Some([preview[1] EXCEPT !.selectedSequenceIndex = index,
                                          !.currentFrame = 0,
                                          !.isPlaying = FALSE])
    /\ UNCHANGED <<player, compare, OtherThanPlayers>>

\* Math.max(0, prev - 1)
PreviewPrevious == PreviewSelect(Max({0, preview[1].selectedSequenceIndex - 1}))

\* Math.min(sequences.length - 1, prev + 1)
PreviewNext == PreviewSelect(Min({Len(FrameCounts) - 1, preview[1].selectedSequenceIndex + 1}))

\* the compare switch: ImageCompare is mounted with fresh state, or unmounted
PreviewToggleCompare ==
    /\ preview' = Some([preview[1] EXCEPT !.compareEnabled = ~@])
    /\ compare' = IF preview[1].compareEnabled THEN Null ELSE Some(PlaybackIdle)
    /\ UNCHANGED <<player, OtherThanPlayers>>

PreviewTick ==
    /\ PreviewIsSequence
    /\ preview[1].isPlaying
    /\ ~preview[1].compareEnabled
    /\ preview' = Some(TickFrame(preview[1], PreviewTotalFrames))
    /\ UNCHANGED <<player, compare, OtherThanPlayers>>

PreviewPlayPause ==
    /\ PreviewIsSequence
    /\ ~preview[1].compareEnabled
    /\ preview' = Some(PlayPause(preview[1], PreviewTotalFrames))
    /\ UNCHANGED <<player, compare, OtherThanPlayers>>

PreviewSeek(value) ==
    /\ PreviewIsSequence
    /\ ~preview[1].compareEnabled
    /\ value <= PreviewTotalFrames - 1
    /\ preview' = Some(Seek(preview[1], value))
    /\ UNCHANGED <<player, compare, OtherThanPlayers>>

PreviewToggleLoop ==
    /\ PreviewIsSequence
    /\ ~preview[1].compareEnabled
    /\ preview' = Some(ToggleLoop(preview[1]))
    /\ UNCHANGED <<player, compare, OtherThanPlayers>>

InitPlayers ==
    /\ player = Some(PlaybackIdle)
    /\ compare = Some(PlaybackIdle)
    /\ preview = Some([selectedSequenceIndex |-> 0, compareEnabled |-> TRUE,
                       currentFrame |-> 0, isPlaying |-> FALSE, loop |-> TRUE])
    /\ filename = <<>>
    /\ parsed = Null
    /\ files = <<>>
    /\ detected = Null
    /\ HookIdle
    /\ conversion = Null
    /\ naming = Null
    /\ PixelIdle
    /\ DropIdle
    /\ ArchiveIdle

NextPlayers ==
    \/ PlayerTick
    \/ PlayerPlayPause
    \/ PlayerFirst
    \/ PlayerLast
    \/ PlayerPrevious
    \/ PlayerNext
    \/ \E value \in 0..(MaxFrames - 1) : PlayerSeek(value)
    \/ PlayerToggleLoop
    \/ CompareTick
    \/ ComparePlayPause
    \/ \E value \in 0..(MaxFrames - 1) : CompareSeek(value)
    \/ CompareToggleLoop
    \/ PreviewPrevious
    \/ PreviewNext
    \/ PreviewToggleCompare
    \/ PreviewTick
    \/ PreviewPlayPause
    \/ \E value \in 0..(MaxFrames - 1) : PreviewSeek(value)
    \/ PreviewToggleLoop

SpecPlayers == InitPlayers /\ [][NextPlayers]_vars

-----------------------------------------------------------------------------
(* downloadSequence, downloadAll.  A JSZip archive is the set of its file   *)
(* entries, each a path and the image whose convertedBlob it holds;         *)
(* zip.file(name, data) replaces an entry of the same path, and             *)
(* zip.folder(name) gives the archive with name + '/' before every path.    *)

JpgName(stem) == stem \o <<".", "j", "p", "g">>

\* zip.file(path, image.convertedBlob)
ZipFile(entries, path, image) ==
    {e \in entries : e.path # path} \cup {[path |-> path, image |-> image.file.ref]}

\* the images of a list with status 'done' and a convertedBlob, in list order
CompletedImages(images) ==
    SelectSeq(images, LAMBDA img : img.status = "done" /\ img.convertedBlob # Null)

\* for (const image of completedImages) folder.file(getWebPFileName(image.name), blob)
RECURSIVE ZipImages(_, _, _)
ZipImages(entries, prefix, images) ==
    IF Len(images) = 0 THEN entries
    ELSE ZipImages(ZipFile(entries, prefix \o getWebPFileName(images[1].name), images[1]),
                   prefix, Tail(images))

\* the loop of downloadAll over the sequences: one folder per sequence when there
\* is more than one sequence, the archive's root otherwise
RECURSIVE ZipSequences(_, _, _)
ZipSequences(entries, seqs, folders) ==
    IF Len(seqs) = 0 THEN entries
    ELSE ZipSequences(ZipImages(entries,
                                IF folders THEN seqs[1].baseName \o <<"/">> ELSE <<>>,
                                CompletedImages(seqs[1].images)),
                      Tail(seqs), folders)

\* the File refs of a list of images
RefsOf(images) == {images[i].file.ref : i \in 1..Len(images)}

\* what saveAs was handed: the file name, whether it is an archive, the archive's
\* entries, and the images that were to be saved
Saved(fileName, zip, entries, images) ==
    [fileName |-> fileName, zip |-> zip, entries |-> entries, images |-> RefsOf(images)]

OtherThanArchive ==
    <<parseVars, detectVars, hookVars, convertVars, nameVars, pixelVars, dropVars, playerVars>>

\* downloadSequence(sequences[k])
DownloadSequence(k) ==
    LET sequence == sequences[k]
        completedImages == CompletedImages(sequence.images)
    IN  /\ archive' =
             IF Len(completedImages) = 0 THEN archive
             ELSE IF Len(completedImages) = 1
             THEN Some(Saved(getWebPFileName(completedImages[1].name), FALSE, {},
                             completedImages))
             ELSE Some(Saved(sequence.baseName \o <<".", "z", "i", "p">>, TRUE,
                             ZipImages({}, <<>>, completedImages), completedImages))
        /\ UNCHANGED OtherThanArchive

\* downloadAll
DownloadAll ==
    /\ archive' = Some(Saved(<<"w", "e", "b", "p", "-", "c", "o", "n", "v", "e", "r", "t", "e",
                               "d", ".", "z", "i", "p">>, TRUE,
                             ZipSequences({}, sequences, Len(sequences) > 1),
                             CompletedImages(LoopImages(sequences))))
    /\ UNCHANGED OtherThanArchive

(* SpecDownload: one addFiles call with files that differ in their extension *)
(* only, converted, and the downloads.                                       *)

DownloadFilePool ==
    {[name |-> PngName(<<"a", "_", "1">>), size |-> 1],
     [name |-> JpgName(<<"a", "_", "1">>), size |-> 2],
     [name |-> PngName(<<"a", "_", "2">>), size |-> 3],
     [name |-> PngName(<<"b">>), size |-> 4],
     [name |-> JpgName(<<"b">>), size |-> 5]}

NextDownload ==
    \/ \E list \in FileLists(DownloadFilePool, MaxBatchFiles) : batches = <<>> /\ AddFiles(list)
    \/ \E b \in 1..Len(batches) : \E blob \in Blobs : ConversionResolved(b, blob)
    \/ \E b \in 1..Len(batches) : \E err \in Rejections : ConversionRejected(b, err)
    \/ \E k \in 1..Len(sequences) : DownloadSequence(k)
    \/ DownloadAll

SpecDownload == Init /\ [][NextDownload]_vars

-----------------------------------------------------------------------------
(* Properties of the hook, checked under Spec.  An image is told apart by   *)
(* the File object it was made from.                                        *)

FileRefs == (1..MaxBatches) \X (1..MaxBatchFiles)

HookPlaces(seqs) ==
    {<<k, i>> \in (1..Len(seqs)) \X (1..MaxBatchFiles) : i <= Len(seqs[k].images)}
PlacesOfRef(seqs, ref) ==
    {pl \in HookPlaces(seqs) : seqs[pl[1]].images[pl[2]].file.ref = ref}
Held(seqs, ref) == PlacesOfRef(seqs, ref) # {}
HeldImage(seqs, ref) ==
    LET pl == CHOOSE q \in PlacesOfRef(seqs, ref) : TRUE
    IN  seqs[pl[1]].images[pl[2]]

\* the status of the image made from the File ref, "absent" when none is held
StatusOf(seqs, ref) == IF Held(seqs, ref) THEN HeldImage(seqs, ref).status ELSE "absent"

\* C1: an image's status moves only along pending -> converting -> done and
\* pending -> converting -> error: it enters 'converting' from 'pending' only (or as
\* it is added), never reaches done or error but from 'converting', and keeps the
\* status 'done' or 'error' for as long as it is held.
C1_StatusPaths ==
    [][\A ref \in FileRefs :
         LET old == StatusOf(sequences, ref)
             new == StatusOf(sequences', ref)
         IN  \/ new = old
             \/ new = "absent"
             \/ old = "absent" /\ new \in {"pending", "converting"}
             \/ old = "pending" /\ new = "converting"
             \/ old = "converting" /\ new \in {"done", "error"}]_vars

\* C2: a failure stays with its image.  An image has status 'error' only if its own
\* convertToWebP call rejected, and has it once that call has rejected; a batch
\* that has finished has awaited the conversion of every one of its images, and
\* each of them that is still held is 'done' if its own call resolved.
C2_FailureConfined ==
    \A b \in 1..Len(batches) : \A j \in 1..Len(batches[b].images) :
        LET batch == batches[b]
            ref == batch.images[j].file.ref
            settled == j <= Len(batch.outcomes)
        IN  /\ batch.finished => Len(batch.outcomes) = Len(batch.images)
            /\ Held(sequences, ref) =>
                 /\ StatusOf(sequences, ref) = "error" => (settled /\ ~batch.outcomes[j])
                 /\ (settled /\ ~batch.outcomes[j]) => StatusOf(sequences, ref) = "error"
                 /\ (batch.finished /\ batch.outcomes[j]) => StatusOf(sequences, ref) = "done"

\* C3: an image is 'done' exactly when its convertedBlob is set, and then its
\* convertedSize is that blob's size; an image with status 'error' has an error
\* message, no convertedBlob and no convertedSize.
C3_ResultMatchesStatus ==
    \A pl \in HookPlaces(sequences) :
        LET img == sequences[pl[1]].images[pl[2]]
        IN  /\ (img.status = "done") <=> (img.convertedBlob # Null)
            /\ img.status = "done" => img.convertedSize = <<img.convertedBlob[1].size>>
            /\ img.status = "error" =>
                 /\ img.error # Null
                 /\ img.convertedBlob = Null
                 /\ img.convertedSize = Null

\* the Sequences held that the addFiles call b made
SequencesOfCall(b) ==
    {k \in 1..Len(sequences) : sequences[k].images[1].file.ref[1] = b}

\* C15: the images one detectSequences call makes have pairwise distinct ids, also
\* when files of the call have the same name; the Sequences of one call have
\* pairwise distinct ids; and an image held keeps the id the call gave it through
\* every status update.
C15_IdsUniqueAndStable ==
    \A b \in 1..Len(batches) :
        /\ \A i \in 1..Len(batches[b].images) : \A j \in 1..Len(batches[b].images) :
             i # j => batches[b].images[i].id # batches[b].images[j].id
        /\ \A k \in SequencesOfCall(b) : \A m \in SequencesOfCall(b) :
             k # m => sequences[k].id # sequences[m].id
        /\ \A j \in 1..Len(batches[b].images) :
             LET ref == batches[b].images[j].file.ref
             IN  Held(sequences, ref) =>
                     /\ Cardinality(PlacesOfRef(sequences, ref)) = 1
                     /\ HeldImage(sequences, ref).id = batches[b].images[j].id

\* one call given the same name twice, in two Sequences of the call, the one image
\* 'done' and the other 'error'
C15_Witness ==
    /\ Len(batches) = 1
    /\ Len(batches[1].images) = 2
    /\ batches[1].images[1].name = batches[1].images[2].name
    /\ Cardinality(SequencesOfCall(1)) = 2
    /\ StatusOf(sequences, <<1, 1>>) = "done"
    /\ StatusOf(sequences, <<1, 2>>) = "error"

\* the sum of convertedSize over the images of the list that are 'done'
RECURSIVE SumDoneSizes(_)
SumDoneSizes(images) ==
    IF Len(images) = 0 THEN 0
    ELSE LET img == images[Len(images)]
         IN  SumDoneSizes(SubSeq(images, 1, Len(images) - 1))
             + (IF img.status = "done" /\ img.convertedSize # Null
                THEN img.convertedSize[1] ELSE 0)

\* C16: in every state of the hook a Sequence's totalConvertedSize is the sum of
\* convertedSize over its images with status 'done': 0 when it is added, and
\* raised as its images complete.
C16_TotalConvertedSizeTracksDone ==
    \A k \in 1..Len(sequences) :
        sequences[k].totalConvertedSize = SumDoneSizes(sequences[k].images)

-----------------------------------------------------------------------------
(* Properties of detectSequences, checked under SpecDetect.                 *)

\* the list detectSequences returned
Result == detected[1]

\* the places of the images in the returned list: sequence k, image i of it
Places == {<<k, i>> \in (1..Len(Result)) \X (1..MaxFiles + 1) : i <= Len(Result[k].images)}
ImageAt(pl) == Result[pl[1]].images[pl[2]]

\* an image's frame number, an image without one counting as frame 0
FrameOf(img) == IF Len(img.frameNumber) = 0 THEN 0 ELSE img.frameNumber[1]

\* two images whose base names are equal up to letter case lie in one bucket
SameBucket(x, y) == ToLowerCase(x.baseName) = ToLowerCase(y.baseName)
BucketOf(pl) == {q \in Places : SameBucket(ImageAt(q), ImageAt(pl))}
\* the buckets that are split by gaps: two members or more, a frame number among them
IsSplitBucket(pl) ==
    /\ Cardinality(BucketOf(pl)) > 1
    /\ \E q \in BucketOf(pl) : ImageAt(q).frameNumber # Null

\* x and y are neighbours in their bucket's frame order: no member lies strictly between
Neighbours(x, y) ==
    /\ x # y
    /\ y \in BucketOf(x)
    /\ FrameOf(ImageAt(x)) <= FrameOf(ImageAt(y))
    /\ ~\E z \in BucketOf(x) : /\ FrameOf(ImageAt(x)) < FrameOf(ImageAt(z))
                               /\ FrameOf(ImageAt(z)) < FrameOf(ImageAt(y))

\* C4: in a bucket that is split by gaps, two neighbouring files share a Sequence
\* when their frame numbers differ by 5 or less and lie in different Sequences when
\* they differ by 6 or more; in every returned Sequence adjacent images differ by
\* at most 5 frames, and the last image of a part and the first image of the next
\* part of the same base name differ by more than 5.
C4_GapBoundary ==
    detected # Null =>
        /\ \A x \in Places : \A y \in Places :
             (IsSplitBucket(x) /\ Neighbours(x, y)) =>
                 /\ (FrameOf(ImageAt(y)) - FrameOf(ImageAt(x)) <= 5) => x[1] = y[1]
                 /\ (FrameOf(ImageAt(y)) - FrameOf(ImageAt(x)) >= 6) => x[1] # y[1]
        /\ \A k \in 1..Len(Result) : \A i \in 1..(Len(Result[k].images) - 1) :
             FrameOf(Result[k].images[i + 1]) - FrameOf(Result[k].images[i]) <= 5
        /\ \A k \in 1..Len(Result) : \A m \in 1..Len(Result) :
             (/\ Result[k].isSequence
              /\ Result[m].isSequence
              /\ Result[k].id.text = Result[m].id.text
              /\ Result[m].id.index = Result[k].id.index + 1)
             => FrameOf(Result[m].images[1])
                  - FrameOf(Result[k].images[Len(Result[k].images)]) > 5

\* a pair at distance exactly 5 kept together, and a pair at distance exactly 6 split
C4_Witness ==
    /\ detected # Null
    /\ \E x \in Places : \E y \in Places :
         /\ IsSplitBucket(x) /\ Neighbours(x, y)
         /\ FrameOf(ImageAt(y)) - FrameOf(ImageAt(x)) = 5
         /\ x[1] = y[1]
    /\ \E x \in Places : \E y \in Places :
         /\ IsSplitBucket(x) /\ Neighbours(x, y)
         /\ FrameOf(ImageAt(y)) - FrameOf(ImageAt(x)) = 6
         /\ x[1] # y[1]

\* the frame numbers the images of a Sequence carry
FrameSet(sq) == {sq.images[i].frameNumber[1] :
                   i \in {j \in 1..Len(sq.images) : sq.images[j].frameNumber # Null}}
Elements(list) == {list[i] : i \in 1..Len(list)}
StrictlyAscending(list) == \A i \in 1..(Len(list) - 1) : list[i] < list[i + 1]

\* C5: missingFrames of every returned Sequence is strictly ascending and holds
\* exactly the integers strictly between the smallest and the largest frame number
\* of its images that are no image's frame number.
C5_MissingFramesExact ==
    detected # Null =>
        \A k \in 1..Len(Result) :
            LET sq == Result[k]
                F == FrameSet(sq)
            IN  /\ StrictlyAscending(sq.missingFrames)
                /\ Elements(sq.missingFrames) =
                     (IF F = {} THEN {}
                      ELSE {n \in Min(F)..Max(F) : n \notin F})

\* a Sequence with two members on one frame number and a non-empty missing list
C5_Witness ==
    /\ detected # Null
    /\ \E k \in 1..Len(Result) :
         /\ Result[k].missingFrames # <<>>
         /\ \E i \in 1..Len(Result[k].images) : \E j \in 1..Len(Result[k].images) :
              /\ i # j
              /\ Result[k].images[i].frameNumber # Null
              /\ Result[k].images[i].frameNumber = Result[k].images[j].frameNumber

\* C6: every returned Sequence with isSequence = true holds at least 2 images, at
\* least one of them with a frame number.
C6_SequenceHasTwoImages ==
    detected # Null =>
        \A k \in 1..Len(Result) :
            Result[k].isSequence =>
                /\ Len(Result[k].images) >= 2
                /\ \E i \in 1..Len(Result[k].images) : Result[k].images[i].frameNumber # Null

\* the input files that share file i's bucket, by their parsed base names
InputBucket(i) ==
    {j \in 1..Len(files) :
        ToLowerCase(extractFrameInfo(files[j].name).baseName)
          = ToLowerCase(extractFrameInfo(files[i].name).baseName)}
InputHasFrame(j) == extractFrameInfo(files[j].name).frameNumber # Null

\* C7: every returned Sequence with isSequence = false holds exactly one image and
\* an empty missingFrames; every file of a bucket with a single member, or with no
\* frame number among its members, is returned as one such singleton.
C7_SinglesHoldOneImage ==
    detected # Null =>
        /\ \A k \in 1..Len(Result) :
             ~Result[k].isSequence =>
                 /\ Len(Result[k].images) = 1
                 /\ Result[k].missingFrames = <<>>
        /\ \A i \in 1..Len(files) :
             (Cardinality(InputBucket(i)) < 2 \/ ~\E j \in InputBucket(i) : InputHasFrame(j)) =>
                 Cardinality({k \in 1..Len(Result) :
                     /\ ~Result[k].isSequence
                     /\ Len(Result[k].images) = 1
                     /\ Result[k].images[1].id.index = i - 1
                     /\ Result[k].images[1].name = files[i].name}) = 1

\* a bucket of two files without frame numbers, and a bucket of one file with one
C7_Witness ==
    /\ detected # Null
    /\ \E i \in 1..Len(files) :
         /\ Cardinality(InputBucket(i)) = 2
         /\ ~\E j \in InputBucket(i) : InputHasFrame(j)
    /\ \E i \in 1..Len(files) : InputBucket(i) = {i} /\ InputHasFrame(i)
    /\ \E k \in 1..Len(Result) : ~Result[k].isSequence

\* C8: the images of every returned Sequence are in non-decreasing order of frame
\* number, an image without a frame number counting as frame 0.
C8_ImagesOrderedByFrame ==
    detected # Null =>
        \A k \in 1..Len(Result) : \A i \in 1..(Len(Result[k].images) - 1) :
            FrameOf(Result[k].images[i]) <= FrameOf(Result[k].images[i + 1])

\* files given in descending frame order, among them one without a frame number,
\* returned in one Sequence with the image without a frame number first
C8_Witness ==
    /\ detected # Null
    /\ \E i \in 1..(Len(files) - 1) :
         /\ InputHasFrame(i) /\ ~InputHasFrame(i + 1)
         /\ i + 1 \in InputBucket(i)
    /\ \E k \in 1..Len(Result) :
         /\ Len(Result[k].images) >= 2
         /\ Result[k].images[1].frameNumber = Null
         /\ FrameOf(Result[k].images[2]) > 0

\* the base name, in its original letter case, of the first input file of the
\* bucket the image belongs to
FirstBaseNameOfBucket(img) ==
    extractFrameInfo(files[Min(InputBucket(img.id.index + 1))].name).baseName

\* C9: the base name stored on a returned Sequence is, in its original letter case,
\* that of the first input file of its bucket (followed by " (Part N)" after a
\* split); a singleton's is its own file's.
C9_BaseNameKeepsCase ==
    detected # Null =>
        \A k \in 1..Len(Result) :
            IF Result[k].isSequence
            THEN LET base == FirstBaseNameOfBucket(Result[k].images[1])
                 IN  \/ Result[k].baseName = base
                     \/ \E n \in 1..(MaxFiles + 1) :
                          Result[k].baseName
                            = base \o <<" ", "(", "P", "a", "r", "t", " ">>
                                   \o NumberToString(n) \o <<")">>
            ELSE Result[k].baseName
                   = extractFrameInfo(Result[k].images[1].name).baseName

\* C13: in the returned list every entry with isSequence = true stands before
\* every entry with isSequence = false, and two entries of the same class stand in
\* ascending order of their baseName under the locale's comparison.
C13_FinalOrdering ==
    detected # Null =>
        \A k \in 1..Len(Result) : \A m \in 1..Len(Result) :
            k < m =>
                /\ Result[m].isSequence => Result[k].isSequence
                /\ (Result[k].isSequence = Result[m].isSequence) =>
                     localeCompare(Result[k].baseName, Result[m].baseName) <= 0

\* a sequence returned before a single image that has the smaller name and was
\* given first
C13_Witness ==
    /\ detected # Null
    /\ \E k \in 1..Len(Result) : \E m \in 1..Len(Result) :
         /\ k < m
         /\ Result[k].isSequence
         /\ ~Result[m].isSequence
         /\ localeCompare(Result[m].baseName, Result[k].baseName) < 0
         /\ Result[m].images[1].id.index = 0

\* the places at which the returned list holds the File object f
PlacesOfFile(f) == {pl \in Places : ImageAt(pl).file = f}

\* C14: detectSequences returns a list for every input list, and the images of the
\* returned Sequences partition the input: every input file is the file of exactly
\* one image, and there are as many images as input files.
C14_ImagesPartitionInput ==
    detected # Null =>
        /\ \A i \in 1..Len(files) : Cardinality(PlacesOfFile(files[i])) = 1
        /\ Cardinality(Places) = Len(files)

\* a list with one name given twice and a name that is only an extension, detected
C14_Witness ==
    /\ detected # Null
    /\ \E i \in 1..Len(files) : \E j \in 1..Len(files) :
         i # j /\ files[i].name = files[j].name
    /\ \E i \in 1..Len(files) : files[i].name = <<".", "p", "n", "g">>
    /\ Cardinality(Places) = 3

-----------------------------------------------------------------------------
(* Properties of convertToWebP, checked under SpecConvert.                  *)

\* the convertToWebP call followed
Call == conversion[1]

\* the double 1
DoubleOne == [bits |-> <<1>> \o [j \in 1..52 |-> 0], exp |-> -52]

\* C17: the quality handed to canvas.toBlob is 1 whenever settings.lossless is true,
\* whatever settings.quality is, and is quality / 100 otherwise (100 times it is
\* quality again); the canvas has the size it has with lossless switched the other
\* way.
C17_LosslessQuality ==
    (conversion # Null /\ Call.toBlobQuality # Null) =>
        /\ Call.settings.lossless => Call.toBlobQuality[1] = DoubleOne
        /\ ~Call.settings.lossless =>
             /\ MathRound(Times(100, Call.toBlobQuality[1])) = Call.settings.quality
             /\ (Call.toBlobQuality[1] = DoubleOne) <=> (Call.settings.quality = 100)
        /\ LET other == [Call.settings EXCEPT !.lossless = ~@]
           IN  /\ Call.canvas[1].width = ScaledSize(Call.image.width, other)
               /\ Call.canvas[1].height = ScaledSize(Call.image.height, other)

\* a lossless conversion with quality 10 and a resize has reached the encoder
C17_Witness ==
    /\ conversion # Null
    /\ Call.stage = "encoding"
    /\ Call.settings.lossless
    /\ Call.settings.quality = 10
    /\ Call.settings.resize = 50
    /\ Call.toBlobQuality = <<DoubleOne>>

\* n is an integer nearest to num / den
IsNearestInteger(n, num, den) ==
    /\ 2 * (den * n - num) <= den
    /\ 2 * (num - den * n) <= den

C19_UrlRevokedOnEveryPath ==
    conversion # Null =>
        /\ Call.revoked <= 1
        /\ Call.promise.state # "pending" => Call.revoked = 1

-----------------------------------------------------------------------------
(* Properties of getWebPFileName, checked under SpecFileName.               *)

\* the name reads stem.ext: its last '.' stands at d and a non-empty ext follows
IsStemDotExt(name, d) ==
    /\ 1 <= d /\ d < Len(name)
    /\ name[d] = "."
    /\ \A j \in (d + 1)..Len(name) : name[j] # "." /\ name[j] # "/"

EndsInWebp(name) ==
    /\ Len(name) >= 5
    /\ SubSeq(name, Len(name) - 4, Len(name)) = <<".", "w", "e", "b", "p">>

\* C20: the name suggested for a file's download is its name with the extension
\* replaced by ".webp", the stem kept character for character; every suggested
\* name ends in ".webp", and getWebPFileName gives a suggested name back unchanged.
C20_SuggestedNameIsWebp ==
    (naming # Null /\ naming[1].suggested # Null) =>
        LET name == naming[1].file.name
            suggested == naming[1].suggested[1]
        IN  /\ \A d \in 1..Len(name) :
                 IsStemDotExt(name, d) =>
                     suggested = SubSeq(name, 1, d - 1) \o <<".", "w", "e", "b", "p">>
            /\ EndsInWebp(suggested)
            /\ getWebPFileName(suggested) = suggested

-----------------------------------------------------------------------------
(* Properties of extractFrameInfo, checked under SpecParse.                 *)

\* the value of a run of decimal digits, read in base 10
DecimalValue(digits) ==
    LET n == Len(digits)
        Pow10(k) == IF k = 0 THEN 1 ELSE IF k = 1 THEN 10 ELSE IF k = 2 THEN 100
                    ELSE IF k = 3 THEN 1000 ELSE IF k = 4 THEN 10000
                    ELSE IF k = 5 THEN 100000 ELSE IF k = 6 THEN 1000000
                    ELSE IF k = 7 THEN 10000000 ELSE 100000000
        Digit(c) == CHOOSE d \in 0..9 : DigitChars[d + 1] = c
        RECURSIVE Sum(_)
        Sum(i) == IF i > n THEN 0 ELSE Digit(digits[i]) * Pow10(n - i) + Sum(i + 1)
    IN  Sum(1)

\* the file name reads <base>_<N>.<ext>: the '_' stands at u and the '.' at d
IsBaseFrameExt(s, u, d) ==
    /\ 1 < u /\ u < d /\ d < Len(s)
    /\ s[u] = "_"
    /\ s[d] = "."
    /\ d - u - 1 >= 2
    /\ \A j \in (u + 1)..(d - 1) : s[j] \in {"0", "1", "2", "3", "4", "5", "6", "7", "8", "9"}
    /\ \A j \in (d + 1)..Len(s) : s[j] # "." /\ s[j] # "/"

\* C10: for a file name <base>_<N>.<ext>, base non-empty, N two or more decimal
\* digits, ext a non-empty extension without '.' and '/', extractFrameInfo returns
\* baseName = base and frameNumber = the decimal value of N.
C10_BaseAndFrameOfUnderscoreName ==
    parsed # Null =>
        \A u \in 1..Len(filename) : \A d \in 1..Len(filename) :
            IsBaseFrameExt(filename, u, d) =>
                /\ parsed[1].baseName = SubSeq(filename, 1, u - 1)
                /\ parsed[1].frameNumber
                     = <<DecimalValue(SubSeq(filename, u + 1, d - 1))>>

\* a name whose base holds a digit or a separator and whose N has a leading zero and
\* a non-zero value, parsed
C10_Witness ==
    /\ parsed # Null
    /\ \E u \in 1..Len(filename) : \E d \in 1..Len(filename) :
         /\ IsBaseFrameExt(filename, u, d)
         /\ \E j \in 1..(u - 1) : filename[j] \in {"0", "7", "_", "-", "."}
         /\ filename[u + 1] = "0"
         /\ parsed[1].frameNumber # <<0>>

\* the file name with its extension removed: the stem the parser works on
Stem == RemoveExtension(filename)

\* the stem reads <base><sep><d>: a non-empty base, '-' or '_', one decimal digit
IsBaseSepDigit(s) ==
    /\ Len(s) >= 3
    /\ s[Len(s) - 1] \in {"-", "_"}
    /\ s[Len(s)] \in {"0", "1", "2", "3", "4", "5", "6", "7", "8", "9"}

\* C11: for a file name whose stem is <base><sep><d>, base non-empty, sep '-' or
\* '_', d one decimal digit, extractFrameInfo returns baseName = base and
\* frameNumber = d, whatever base ends in.
C11_SingleDigitSuffix ==
    parsed # Null =>
        (IsBaseSepDigit(Stem) =>
            /\ parsed[1].baseName = SubSeq(Stem, 1, Len(Stem) - 2)
            /\ parsed[1].frameNumber = <<DecimalValue(<<Stem[Len(Stem)]>>)>>)

\* a stem like v10_5, whose base ends in two digits, parsed to a non-zero frame
C11_Witness ==
    /\ parsed # Null
    /\ IsBaseSepDigit(Stem)
    /\ Len(Stem) >= 5
    /\ Stem[Len(Stem) - 2] \in {"0", "7"}
    /\ Stem[Len(Stem) - 3] \in {"0", "7"}
    /\ parsed[1].frameNumber = <<7>>

\* the stem ends in a decimal digit
EndsInDigit(s) ==
    /\ Len(s) >= 1
    /\ s[Len(s)] \in {"0", "1", "2", "3", "4", "5", "6", "7", "8", "9"}

\* C12: for a file name whose stem does not end in a decimal digit,
\* extractFrameInfo returns no frame number and the whole stem as baseName; for
\* every file name the frame number returned is absent or a non-negative integer.
C12_NoTrailingDigitNoFrame ==
    parsed # Null =>
        /\ ~EndsInDigit(Stem) =>
             /\ parsed[1].frameNumber = Null
             /\ parsed[1].baseName = Stem
        /\ parsed[1].frameNumber # Null =>
             /\ parsed[1].frameNumber[1] \in Nat
             /\ Len(parsed[1].frameNumber) = 1

\* a stem that holds digits behind a '-' and ends in a separator, parsed
C12_Witness ==
    /\ parsed # Null
    /\ Len(Stem) >= 4
    /\ Stem[Len(Stem)] \in {"-", "_"}
    /\ \E j \in 2..(Len(Stem) - 1) : Stem[j - 1] = "-" /\ Stem[j] = "7"
    /\ parsed[1].frameNumber = Null

-----------------------------------------------------------------------------
(* Properties of the luminance filters, checked under SpecLuminance. *)

Distance(x, y) == IF x >= y THEN x - y ELSE y - x

\* C21: the colour-preserving round trip.  For a pixel whose extracted luminance is
\* at least 0.001, applyLuminance with a new luminance equal to the old one gives
\* back R, G and B within 1 per channel and the alpha channel unchanged.
C21_IdentityRoundTrip ==
    (/\ pixel # Null
     /\ pixel[1].result # Null
     /\ pixel[1].oldMap[1] >= 1
     /\ pixel[1].newMap = pixel[1].oldMap)
    => LET before == pixel[1].pixels
           after == pixel[1].result[1]
       IN  /\ Distance(after.r, before.r) <= 1
           /\ Distance(after.g, before.g) <= 1
           /\ Distance(after.b, before.b) <= 1
           /\ after.a = before.a

C21_Witness ==
    /\ pixel # Null
    /\ pixel[1].result # Null
    /\ pixel[1].newMap = pixel[1].oldMap
    /\ pixel[1].pixels = [r |-> 255, g |-> 1, b |-> 128, a |-> 0]
    /\ pixel[1].result[1] = pixel[1].pixels

-----------------------------------------------------------------------------
(* Properties of the App, checked under SpecApp. *)

\* the places of the images held with the status 'converting'
ConvertingPlaces ==
    {pl \in HookPlaces(sequences) : sequences[pl[1]].images[pl[2]].status = "converting"}

\* C22: the conversions of a batch run one after another in list order.  At most
\* one image held has the status 'converting', and while an image of a batch is
\* 'converting' every image before it in the batch that is still held is 'done'
\* or 'error'.
C22_OneAtATimeInOrder ==
    /\ Cardinality(ConvertingPlaces) <= 1
    /\ \A b \in 1..Len(batches) : \A j \in 1..Len(batches[b].images) :
         StatusOf(sequences, batches[b].images[j].file.ref) = "converting" =>
             \A i \in 1..(j - 1) :
                 StatusOf(sequences, batches[b].images[i].file.ref) \in {"done", "error", "absent"}

\* C23: isConverting is true whenever some image held is 'converting', and, every
\* conversion call settling, isConverting is false again some time after it was
\* set, also when conversions fail or the list is cleared while the batch runs.
C23_ConvertingFlag ==
    /\ [](ConvertingPlaces # {} => isConverting)
    /\ [](isConverting => <>(~isConverting))

\* a batch of two images has finished with a failed conversion, the list was
\* cleared, and isConverting is false again
C23_Witness ==
    /\ ~isConverting
    /\ sequences = <<>>
    /\ \E b \in 1..Len(batches) :
         /\ batches[b].finished
         /\ batches[b].outcomes = <<FALSE, TRUE>>

\* C24: every convertToWebP call of a batch is handed the settings that were the
\* settings state when addFiles was called for the batch.
C24_SettingsOfTheCall ==
    \A b \in 1..Len(batches) : \A j \in 1..Len(batches[b].used) :
        batches[b].used[j] = batches[b].called

\* C25: once the list is empty it stays empty until the next addFiles call:
\* conversions of an earlier batch that resolve or reject afterwards put nothing
\* back.
C25_ClearedStaysEmpty ==
    [][(sequences = <<>> /\ Len(batches') = Len(batches)) => sequences' = <<>>]_vars

\* the list is empty while a batch still awaits the conversion of its second image
C25_Witness ==
    /\ sequences = <<>>
    /\ \E b \in 1..Len(batches) : ~batches[b].finished /\ batches[b].pos = 2

\* the images, by their File, that are held before and after a step and differ
ChangedRefs ==
    {ref \in FileRefs :
        /\ Held(sequences, ref)
        /\ Held(sequences', ref)
        /\ HeldImage(sequences, ref) # HeldImage(sequences', ref)}

\* the images, by their File, that the updates of a step are made for: the first
\* image of a batch that the step adds, and for a batch whose loop the step moves
\* on, the image whose conversion settled and the image whose conversion begins
UpdatedRefs ==
    {ref \in FileRefs :
        \E b \in 1..Len(batches') : \E j \in 1..Len(batches'[b].images) :
            /\ batches'[b].images[j].file.ref = ref
            /\ IF b > Len(batches) THEN j = 1
               ELSE /\ batches'[b] # batches[b]
                    /\ j \in {batches[b].pos, batches'[b].pos}}

\* C26: an update for one image changes that image only.  The images held before
\* and after a step that the step changes are images its updates are made for;
\* every other image held keeps its status, convertedBlob, convertedSize and error.
C26_UpdateTouchesOneImage ==
    [][ChangedRefs \subseteq UpdatedRefs]_vars

\* C29: onFilesSelected is called with a list that is not empty and whose files all
\* pass isAcceptedImage; it is not called while the zone is disabled, and while
\* isProcessing only by the drop that is being read as its reading ends;
\* isProcessing is false whenever no drop is being read, and is reset by the step
\* that ends a reading, rejected or not.
C29_FilesHandedOn ==
    /\ [](/\ \A b \in 1..Len(batches) :
               /\ Len(batches[b].images) > 0
               /\ \A j \in 1..Len(batches[b].images) : isAcceptedImage(batches[b].images[j].file)
          /\ isProcessing => reading # Null)
    /\ [][/\ Len(batches') > Len(batches) =>
               /\ ~isConverting
               /\ isProcessing => (reading # Null /\ reading' = Null)
          /\ (reading # Null /\ reading' = Null) => ~isProcessing']_vars

\* the folder drop was read and its one image, a PNG without a MIME type, handed on
C29_Witness ==
    /\ ~isProcessing
    /\ reading = Null
    /\ \E b \in 1..Len(batches) :
         /\ Len(batches[b].images) = 1
         /\ batches[b].images[1].file.type = ""

-----------------------------------------------------------------------------
(* Properties of the players, checked under SpecPlayers. *)

InRange(st, totalFrames) == 0 <= st.currentFrame /\ st.currentFrame <= totalFrames - 1

\* C27: in every player the frame shown is a frame of the sequence:
\* 0 <= currentFrame <= totalFrames - 1, in SequencePlayer, in PreviewPanel and
\* in the ImageCompare it renders, also after the panel has gone to a sequence
\* with fewer frames.
C27_FrameInRange ==
    /\ InRange(player[1], PlayerTotalFrames)
    /\ InRange(preview[1], PreviewTotalFrames)
    /\ compare # Null => InRange(compare[1], CompareTotalFrames)

\* what C28 asks of one step of one player: st its state before, new after
TickAtEnd(st, new, totalFrames) ==
    IF st.loop THEN new.currentFrame = 0 /\ new.isPlaying
    ELSE new.currentFrame = st.currentFrame /\ ~new.isPlaying

\* C28: playback at the last frame and the stops.  A tick at the last frame with
\* loop off keeps currentFrame and ends playing; with loop on it goes to frame 0
\* and playing goes on; a slider seek ends playing; going from playing to paused
\* keeps currentFrame.
C28_PlaybackEnds ==
    [][/\ (PlayerTick /\ player[1].currentFrame = PlayerTotalFrames - 1) =>
              TickAtEnd(player[1], player'[1], PlayerTotalFrames)
       /\ (CompareTick /\ compare[1].currentFrame = CompareTotalFrames - 1) =>
              TickAtEnd(compare[1], compare'[1], CompareTotalFrames)
       /\ (PreviewTick /\ preview[1].currentFrame = PreviewTotalFrames - 1) =>
              TickAtEnd(preview[1], preview'[1], PreviewTotalFrames)
       /\ (\E value \in 0..(MaxFrames - 1) : PlayerSeek(value)) => ~player'[1].isPlaying
       /\ (\E value \in 0..(MaxFrames - 1) : CompareSeek(value)) => ~compare'[1].isPlaying
       /\ (\E value \in 0..(MaxFrames - 1) : PreviewSeek(value)) => ~preview'[1].isPlaying
       /\ (PlayerPlayPause /\ player[1].isPlaying) =>
              player'[1].currentFrame = player[1].currentFrame
       /\ (ComparePlayPause /\ compare[1].isPlaying) =>
              compare'[1].currentFrame = compare[1].currentFrame
       /\ (PreviewPlayPause /\ preview[1].isPlaying) =>
              preview'[1].currentFrame = preview[1].currentFrame]_vars

-----------------------------------------------------------------------------
(* Properties of the downloads, checked under SpecDownload. *)

\* C30: an archive handed to saveAs holds one entry for every 'done' image it was
\* made from: the done images of the sequence for downloadSequence, the done
\* images of all sequences for downloadAll; each of these images has its entry and
\* no two of them share one.
C30_OneEntryPerDoneImage ==
    (archive # Null /\ archive[1].zip) =>
        /\ {e.image : e \in archive[1].entries} = archive[1].images
        /\ Cardinality(archive[1].entries) = Cardinality(archive[1].images)

====
